---------------------------- MODULE Spec2Model ----------------------------
(***************************************************************************)
(* MarisTestPlat: the step-execution orchestrator (TestEngine), the plugin *)
(* registry it looks plugins up in and the data store its steps refer to.  *)
(*                                                                         *)
(* A behaviour of the engine specifications is one call of executeTestCase *)
(* on a test case drawn in the initial state.  A behaviour of the registry *)
(* specification is a sequence of calls on one PluginManager.  The plugins *)
(* are external code; they are modelled by a fixed fleet of plugin modules *)
(* whose behaviour (return a result, raise std::exception, raise something *)
(* else) is decided by the module and the step's action.                   *)
(*                                                                         *)
(* Texts that may hold ${dataset.item} tokens (target, value, dataset and  *)
(* item names, item values) are sequences of one-character strings.        *)
(* Plugin names, actions and messages are TLA+ strings.                    *)
(***************************************************************************)
EXTENDS Integers, Sequences, FiniteSets, TLC

VARIABLES
    testCase,          \* the TestCase passed to executeTestCase (read-only)
    plugins_,          \* PluginManager::plugins_: name -> PluginHandle
    insts,             \* the plugin objects constructed so far: id -> what was done to it
    modRefs,           \* module path -> outstanding LoadLibrary references
    manager,           \* lifetime of the PluginManager object
    m_initialized,     \* AutomationCore::m_initialized
    lastCall,          \* the last call on the PluginManager: operation, argument, outcome, events
    pluginDir,         \* the module files callers pass to loadPlugin
    dataSets_,         \* TestDataManager::dataSets_: id -> [name, items]
    dataSetNameMap_,   \* TestDataManager::dataSetNameMap_: name -> id
    nextDataSetId_,    \* TestDataManager::nextDataSetId_
    nextDataItemId_,   \* TestDataManager::nextDataItemId_
    inputText,         \* the text whose references callers resolve
    prevResolve,       \* the resolution call before the last one
    lastResolve,       \* the last resolution call: operation, argument, outcome, store before
    heldPlugin,        \* executeTestStep's local pointer 'plugin' between getPlugin and its use
    subPc,             \* position of the thread inside substituteDataReferences
    subResult,         \* substituteDataReferences' local 'result'
    subTemp,           \* substituteDataReferences' local 'temp'
    writing,           \* the item assignment updateDataItem is in the middle of, if any
    reads,             \* the item values the substitution read, each with what the item held
    m_testEngine,      \* AutomationCore::m_testEngine: "null" or the state of the TestEngine
    m_dataManager,     \* AutomationCore::m_dataManager: "null" or the state of the TestDataManager
    lastParallel,      \* the last executeTestCasesParallel call: arguments and returned list
    lastCore,          \* the last lifecycle call or query on the AutomationCore
    scan,              \* the locals of a substitution call that runs loop turn by loop turn
    m_isInitialized,   \* Win32Plugin::m_isInitialized
    lastDispatch,      \* the last step dispatched to the Win32 plugin: its StepParam and outcome
    lastStore,         \* the last call that writes the store: operation, argument, outcome, store before
    workers,           \* ThreadPool::workers: thread -> where it is in its loop, and its local 'task'
    tasks,             \* ThreadPool::tasks, the queue
    stop,              \* ThreadPool::stop
    dtor,              \* position of the thread that runs ~ThreadPool
    callers,           \* the threads that call enqueue: thread -> position in the call
    ran,               \* task -> the workers that have run it, in order
    pc,                \* position of the run inside executeTestCase
    stepIdx,           \* index of the next step of the for loop
    result,            \* the TestExecutionResult under construction
    calls              \* calls made on the hooks and on the registry/plugins, in order

\* the state the PluginManager and the AutomationCore own besides plugins_
regVars == <<insts, modRefs, manager, m_initialized, lastCall, pluginDir>>

\* the state of one executeTestCase call
runVars == <<testCase, pc, stepIdx, result, calls>>

\* the data store of the TestDataManager
dataVars == <<dataSets_, dataSetNameMap_, nextDataSetId_, nextDataItemId_>>

\* the resolution calls made on it
resolveVars == <<inputText, prevResolve, lastResolve>>

\* what the threads of the two concurrent specifications hold
threadVars == <<heldPlugin, subPc, subResult, subTemp, writing, reads>>

\* the components the AutomationCore owns besides the PluginManager, and
\* the calls of its facade
coreVars == <<m_testEngine, m_dataManager, lastParallel, lastCore>>

\* the locals of the substitution that runs turn by turn
scanVars == <<scan>>

\* the Win32 plugin and the steps dispatched to it
win32Vars == <<m_isInitialized, lastDispatch>>

\* the state of the remaining components, and the same without one of them
storeCallVars == <<lastStore>>
poolVars == <<workers, tasks, stop, dtor, callers, ran>>

restVars == <<coreVars, scanVars, win32Vars, storeCallVars, poolVars>>
exceptCore == <<scanVars, win32Vars, storeCallVars, poolVars>>
exceptScan == <<coreVars, win32Vars, storeCallVars, poolVars>>
exceptWin32 == <<coreVars, scanVars, storeCallVars, poolVars>>
exceptStoreCall == <<coreVars, scanVars, win32Vars, poolVars>>
exceptPool == <<coreVars, scanVars, win32Vars, storeCallVars>>

vars == <<testCase, plugins_, dataVars, resolveVars, threadVars, restVars, pc, stepIdx, result,
          calls,
          insts, modRefs, manager, m_initialized, lastCall, pluginDir>>

---------------------------------------------------------------------------
(* Bounds of the model *)

\* longest step list of a case in Spec and SpecData
MaxSteps == 2

\* longest step list of a case in SpecPolicy
MaxPolicySteps == 3

\* most plugin objects a PluginManager registers over its life
MaxInstances == 3

\* most calls of uninitialize() one plugin object receives (a call that
\* raised can be repeated)
MaxUninitCalls == 2

---------------------------------------------------------------------------
(* Texts *)

Str1(a) == <<a>>

\* "${" d "." i "}"
Token(d, i) == <<"$", "{">> \o d \o <<".">> \o i \o <<"}">>

SubText(t, i, j) == [k \in 1..(j - i + 1) |-> t[i + k - 1]]

HasChar(t, c) == \E k \in 1..Len(t) : t[k] = c

---------------------------------------------------------------------------
(* The data store, as far as reference resolution reads it *)

DataSetIdOf(nameMap, d) == nameMap[d]

\* getDataItemByName finds an item: some item of the dataset carries the name
HasItemNamed(sets, id, i) ==
    /\ id \in DOMAIN sets
    /\ \E k \in 1..Len(sets[id].items) : sets[id].items[k].name = i

\* the token text[a..b] = "${d.i}" (d without ".", i without "}", both
\* non-empty) names a dataset and an item that exist in the store
ResolvableTokenAt(sets, nameMap, t, a, b) ==
    /\ a + 5 <= b
    /\ t[a] = "$" /\ t[a + 1] = "{" /\ t[b] = "}"
    /\ \E dot \in (a + 3)..(b - 2) :
          LET d == SubText(t, a + 2, dot - 1)
              i == SubText(t, dot + 1, b - 1)
          IN  /\ t[dot] = "."
              /\ ~HasChar(d, ".")
              /\ ~HasChar(i, "}")
              /\ d \in DOMAIN nameMap
              /\ HasItemNamed(sets, DataSetIdOf(nameMap, d), i)

HasResolvableToken(sets, nameMap, t) ==
    \E a \in 1..Len(t), b \in 1..Len(t) : ResolvableTokenAt(sets, nameMap, t, a, b)

---------------------------------------------------------------------------
(* std::string and std::regex, as reference resolution uses them.
   Positions count from 1; 0 stands for std::string::npos and for "no
   match". *)

Least(S) == CHOOSE k \in S : \A j \in S : k <= j

\* t.find(pat, pos): where pat first occurs in t at or after pos
Find(t, pat, pos) ==
    LET hits == {k \in pos..(Len(t) - Len(pat) + 1) :
                    SubText(t, k, k + Len(pat) - 1) = pat}
    IN  IF hits = {} THEN 0 ELSE Least(hits)

\* t.replace(pos, n, v)
Replace(t, pos, n, v) == SubText(t, 1, pos - 1) \o v \o SubText(t, pos + n, Len(t))

NoMatch == [found |-> FALSE, first |-> 0, last |-> 0, dataSetName |-> <<>>, itemName |-> <<>>]

\* the match of \$\{([^.]+)\.([^}]+)\} that begins at s.  [^.]+ runs up to
\* the first "." after "${" and [^}]+ up to the first "}" after that dot,
\* and neither can give a character back, so there is at most one.
MatchAt(t, s) ==
    LET dot   == Find(t, <<".">>, s + 2)
        close == IF dot = 0 THEN 0 ELSE Find(t, <<"}">>, dot + 1)
    IN  IF s + 1 <= Len(t) /\ t[s] = "$" /\ t[s + 1] = "{" /\ dot >= s + 3
           /\ close >= dot + 2
        THEN [found |-> TRUE, first |-> s, last |-> close,
              dataSetName |-> SubText(t, s + 2, dot - 1),
              itemName |-> SubText(t, dot + 1, close - 1)]
        ELSE NoMatch

\* std::regex_search(t, match, refRegex): the leftmost match
regex_search(t) ==
    LET starts == {s \in 1..Len(t) : MatchAt(t, s).found}
    IN  IF starts = {} THEN NoMatch ELSE MatchAt(t, Least(starts))

\* std::regex_match(t, match, refRegex): a match that is all of t
regex_match(t) ==
    LET m == MatchAt(t, 1)
    IN  IF m.found /\ m.last = Len(t) THEN m ELSE NoMatch

\* match[0] and match.suffix()
FullMatch(t, m) == SubText(t, m.first, m.last)

\* a suffix that still holds the match
Suffix_FromMatch(t, m) == SubText(t, m.first, Len(t))

Suffix(t, m) == SubText(t, m.last + 1, Len(t))

---------------------------------------------------------------------------
(* TestDataManager: lookups *)

\* what a call throws: nothing, or a TestDataException whose what() is
\* prefix, the text it is about and, for a rethrown one, the cause's prefix
NoException == [type |-> "none", prefix |-> "", about |-> <<>>, cause |-> ""]

TestDataException(prefix, about, cause) ==
    [type |-> "TestDataException", prefix |-> prefix, about |-> about, cause |-> cause]

\* lines 37-41
checkDataSetExists(sets, id) == id \in DOMAIN sets

\* a lookup that takes every name as known
NameMapHas_Unchecked(nameMap, d) == TRUE

\* lines 283 and 315: dataSetNameMap_.find(dataSetName) != end()
NameMapHas(nameMap, d) == d \in DOMAIN nameMap

\* lines 287 and 316: dataSetNameMap_[dataSetName], which leaves a name it
\* does not find in the map, with the id 0
IndexNameMap(nameMap, d) ==
    IF d \in DOMAIN nameMap THEN nameMap ELSE nameMap @@ (d :> 0)

\* line 258: dataSets_[dataSetId], which leaves an id it does not find in
\* the map, with an empty dataset
IndexDataSets(sets, id) ==
    IF id \in DOMAIN sets THEN sets ELSE sets @@ (id :> [name |-> <<>>, items |-> <<>>])

\* lines 255-267: the first item of dataset id that carries the name, or the
\* exception thrown, and the datasets the call leaves
getDataItemByName(sets, id, name) ==
    LET sets2 == IndexDataSets(sets, id)
    IN
    IF ~checkDataSetExists(sets, id)
    THEN [thrown |-> TestDataException("DataSet with ID ", <<>>, ""), value |-> <<>>,
          sets |-> sets]
    ELSE IF ~HasItemNamed(sets2, id, name)
    THEN [thrown |-> TestDataException("DataItem with name '", name, ""), value |-> <<>>,
          sets |-> sets2]
    ELSE [thrown |-> NoException,
          value |-> sets2[id].items[Least({k \in 1..Len(sets2[id].items) :
                                              sets2[id].items[k].name = name})].value,
          sets |-> sets2]

---------------------------------------------------------------------------
(* TestDataManager::resolveDataReference *)

\* lines 270-297: the item's value, or the exception thrown, and the
\* datasets and the name map the call leaves
resolveDataReference(sets, nameMap, reference) ==
    LET m    == regex_match(reference)
        map2 == IndexNameMap(nameMap, m.dataSetName)
        item == getDataItemByName(sets, map2[m.dataSetName], m.itemName)
    IN
    IF ~m.found
    THEN [thrown |-> TestDataException("Invalid data reference format: ", reference, ""),
          value |-> <<>>, sets |-> sets, nameMap |-> nameMap]
    ELSE IF ~NameMapHas(nameMap, m.dataSetName)
    THEN [thrown |-> TestDataException("DataSet with name '", m.dataSetName, ""),
          value |-> <<>>, sets |-> sets, nameMap |-> nameMap]
    ELSE IF item.thrown.type # "none"
    THEN [thrown |-> TestDataException("Failed to resolve reference ", reference,
                                       item.thrown.prefix),
          value |-> <<>>, sets |-> item.sets, nameMap |-> map2]
    ELSE [thrown |-> NoException, value |-> item.value, sets |-> item.sets,
          nameMap |-> map2]

---------------------------------------------------------------------------
(* TestDataManager::substituteDataReferences *)

\* lines 320-324: every occurrence of fullMatch in out (result) at or after pos
\* becomes value, the search going on behind each inserted value
RECURSIVE ReplaceEvery(_, _, _, _)
ReplaceEvery(out, fullMatch, value, pos) ==
    LET at == Find(out, fullMatch, pos)
    IN  IF at = 0 THEN out
        ELSE ReplaceEvery(Replace(out, at, Len(fullMatch), value), fullMatch, value,
                          at + Len(value))

\* lines 307-333: one turn of the while loop, for the match m found in temp
SubstituteTurn(sets, nameMap, out, temp, m) ==
    LET has  == NameMapHas(nameMap, m.dataSetName)
        map2 == IF has THEN IndexNameMap(nameMap, m.dataSetName) ELSE nameMap
        item == getDataItemByName(sets, map2[m.dataSetName], m.itemName)
    IN  [result  |-> IF has /\ item.thrown.type = "none"
                     THEN ReplaceEvery(out, FullMatch(temp, m), item.value, 1)
                     ELSE out,
         temp    |-> Suffix(temp, m),
         sets    |-> IF has THEN item.sets ELSE sets,
         nameMap |-> map2]

\* lines 306-335: the loop, from the state (result, temp)
RECURSIVE SubstituteLoop(_, _, _, _)
SubstituteLoop(sets, nameMap, out, temp) ==
    LET m == regex_search(temp)
        t == SubstituteTurn(sets, nameMap, out, temp, m)
    IN  IF ~m.found
        THEN [thrown |-> NoException, ret |-> out, sets |-> sets, nameMap |-> nameMap]
        ELSE SubstituteLoop(t.sets, t.nameMap, t.result, t.temp)

\* lines 300-336
substituteDataReferences(sets, nameMap, input) ==
    SubstituteLoop(sets, nameMap, input, input)

---------------------------------------------------------------------------
(* AutomationCore::resolveDataReferences *)

\* part_001 lines 414-463: the loop, from the state (result, pos).  The
\* datasets come from getAllDataSets in the order of their ids; the first
\* one that carries the name either yields the item or getDataItemByName
\* throws, and nothing between here and the caller catches it.
RECURSIVE ResolveLoop(_, _, _, _)
ResolveLoop(sets, nameMap, out, pos) ==
    LET p           == Find(out, <<"$", "{">>, pos)
        endPos      == IF p = 0 THEN 0 ELSE Find(out, <<"}">>, p)
        ref         == SubText(out, p + 2, endPos - 1)
        dotPos      == Find(ref, <<".">>, 1)
        datasetName == SubText(ref, 1, dotPos - 1)
        itemName    == SubText(ref, dotPos + 1, Len(ref))
        ids         == {id \in DOMAIN sets : sets[id].name = datasetName}
        item        == getDataItemByName(sets, Least(ids), itemName)
    IN
    IF p = 0 \/ endPos = 0
    THEN [thrown |-> NoException, ret |-> out, sets |-> sets, nameMap |-> nameMap]
    ELSE IF dotPos = 0 \/ ids = {} THEN ResolveLoop(sets, nameMap, out, endPos + 1)
    ELSE IF item.thrown.type # "none"
    THEN [thrown |-> item.thrown, ret |-> <<>>, sets |-> item.sets, nameMap |-> nameMap]
    ELSE ResolveLoop(item.sets, nameMap, Replace(out, p, endPos - p + 1, item.value),
                     p + Len(item.value))

\* part_001 lines 402-466
resolveDataReferences(initialized, sets, nameMap, text) ==
    IF ~initialized
    THEN [thrown |-> NoException, ret |-> text, sets |-> sets, nameMap |-> nameMap]
    ELSE ResolveLoop(sets, nameMap, text, 1)

\* no resolution call was made
NoResolve ==
    [op |-> "none", arg |-> <<>>, thrown |-> NoException, ret |-> <<>>,
     sets |-> <<>>, nameMap |-> <<>>, nextSet |-> 0, nextItem |-> 0]

NoResolution == inputText = <<>> /\ prevResolve = NoResolve /\ lastResolve = NoResolve

\* no updateDataItem is under way
NoWrite ==
    [active |-> FALSE, dataSetId |-> 0, item |-> 0, old |-> <<>>, new |-> <<>>,
     thrown |-> NoException]

\* no executeTestCasesParallel call was made
NoParallel == [op |-> "none", cases |-> <<>>, threadCount |-> 0, ret |-> <<>>]

\* the components of a core are there exactly when initialize() has
\* succeeded (part_001 lines 29, 61, 89, 98)
CoreComponents ==
    /\ m_testEngine = IF m_initialized THEN "alive" ELSE "null"
    /\ m_dataManager = IF m_initialized THEN "alive" ELSE "null"

\* no substitution call runs turn by turn
NoScan ==
    [op |-> "none", pc |-> "idle", result |-> <<>>, temp |-> <<>>, pos |-> 0,
     fullMatch |-> <<>>, value |-> <<>>, thrown |-> NoException]

\* no step was dispatched to the Win32 plugin
NoDispatch ==
    [op |-> "none", param |-> <<>>, passed |-> FALSE, handler |-> "", thrown |-> "none",
     result |-> <<>>]

\* no lifecycle call or query was made on the core
NoCoreCall ==
    [op |-> "none", arg |-> "", ret |-> "", before |-> <<>>, thrown |-> "none", what |-> ""]

\* no call has written the store
NoStoreCall ==
    [op |-> "none", arg |-> <<>>, thrown |-> NoException, ret |-> 0,
     sets |-> <<>>, nameMap |-> <<>>, nextSet |-> 0, nextItem |-> 0]

\* a pool that is not there: no thread, no task
NoPool ==
    /\ workers = <<>>
    /\ tasks = <<>>
    /\ stop = FALSE
    /\ dtor = [pc |-> "returned", next |-> 1]
    /\ callers = <<>>
    /\ ran = <<>>

NoRestButPool ==
    /\ CoreComponents
    /\ lastParallel = NoParallel
    /\ lastCore = NoCoreCall
    /\ scan = NoScan
    /\ m_isInitialized = FALSE
    /\ lastDispatch = NoDispatch
    /\ lastStore = NoStoreCall

NoRest == NoRestButPool /\ NoPool

\* no thread is inside executeTestStep or substituteDataReferences
NoThreads ==
    /\ heldPlugin = 0          \* a null pointer
    /\ subPc = "idle"
    /\ subResult = <<>>
    /\ subTemp = <<>>
    /\ writing = NoWrite
    /\ reads = <<>>

---------------------------------------------------------------------------
(* Records *)

\* StepResult as default-constructed
DefaultStepResult ==
    [success |-> FALSE, message |-> "", error_code |-> 0, err_info |-> ""]

\* TestExecutionResult as default-constructed, plus whether end_time and
\* total_duration have been stamped
DefaultExecutionResult ==
    [overall_success |-> FALSE, step_results |-> <<>>, error_message |-> "",
     stamped |-> FALSE]

MkStep(id, p, a, tgt, val, opt, sof) ==
    [id |-> id, plugin_name |-> p,
     param |-> [action |-> a, target |-> tgt, value |-> val],
     is_optional |-> opt, stop_on_failure |-> sof]

---------------------------------------------------------------------------
(* The plugin modules (DLLs) and the plugins they construct *)

\* the entry points of the plugin contract, as the macro
\* DECLARE_AUTOMATION_PLUGIN exports them
ContractExports == {"createPlugin", "destroyPlugin"}

\* the one entry point Win32Plugin.cpp exports
Win32Exports == {"CreatePluginInstance"}

\* what loadPlugin meets in a module file: exists (PathFileExistsA), loads
\* (LoadLibraryA), exports (the C-linkage symbols of its export table),
\* creates (createPlugin returns an object), the object's name() and
\* version(), what its initialize() returns, whether uninitialize() raises
MkModule(ex, ld, exp, cr, n, v, ini, unr) ==
    [exists |-> ex, loads |-> ld, exports |-> exp, creates |-> cr,
     name |-> n, version |-> v, initOk |-> ini, uninitRaises |-> unr]

PluginModule(d) ==
    CASE d = "mock.dll"    -> MkModule(TRUE, TRUE, ContractExports, TRUE, "mock", "1.0", TRUE, FALSE)
      [] d = "faulty.dll"  -> MkModule(TRUE, TRUE, ContractExports, TRUE, "faulty", "1.0", TRUE, FALSE)
      [] d = "rogue.dll"   -> MkModule(TRUE, TRUE, ContractExports, TRUE, "rogue", "1.0", TRUE, FALSE)
      [] d = "a.dll"       -> MkModule(TRUE, TRUE, ContractExports, TRUE, "A", "1.0", TRUE, FALSE)
      [] d = "a2.dll"      -> MkModule(TRUE, TRUE, ContractExports, TRUE, "A", "2.0", TRUE, FALSE)
      [] d = "b.dll"       -> MkModule(TRUE, TRUE, ContractExports, TRUE, "B", "", TRUE, FALSE)
      [] d = "r.dll"       -> MkModule(TRUE, TRUE, ContractExports, TRUE, "R", "1.0", TRUE, TRUE)
      [] d = "badinit.dll" -> MkModule(TRUE, TRUE, ContractExports, TRUE, "I", "1.0", FALSE, FALSE)
      [] d = "anon.dll"    -> MkModule(TRUE, TRUE, ContractExports, TRUE, "", "1.0", TRUE, FALSE)
      [] d = "null.dll"    -> MkModule(TRUE, TRUE, ContractExports, FALSE, "", "", FALSE, FALSE)
      [] d = "noentry.dll" -> MkModule(TRUE, TRUE, {}, FALSE, "", "", FALSE, FALSE)
      [] d = "TestAutomation.dll" ->
            MkModule(TRUE, TRUE, Win32Exports, TRUE, "Win32AutomationPlugin", "1.0.0",
                     TRUE, FALSE)
      [] d = "corrupt.dll" -> MkModule(TRUE, FALSE, {}, FALSE, "", "", FALSE, FALSE)
      [] OTHER             -> MkModule(FALSE, FALSE, {}, FALSE, "", "", FALSE, FALSE)

AllModules == {"mock.dll", "faulty.dll", "rogue.dll", "a.dll", "a2.dll", "b.dll", "r.dll",
               "badinit.dll", "anon.dll", "null.dll", "noentry.dll", "corrupt.dll",
               "TestAutomation.dll", "absent.dll"}

\* GetProcAddress(hModule, symbol): the address, or null when the module
\* does not export the symbol
GetProcAddress(m, symbol) == symbol \in m.exports

\* a null IAutomationPlugin*; plugin objects are numbered from 1
NullPlugin == 0

\* a plugin object fresh from createPlugin: the module that made it and how
\* often each hook, the module's destroyPlugin and FreeLibrary of its
\* handle's module have been called for it
NewInstance(d) ==
    [dll |-> d, initCalls |-> 0, uninitCalls |-> 0, destroyCalls |-> 0, freeCalls |-> 0]

\* PluginHandle: the module handle and the owning pointer to the plugin
MkHandle(d, i) == [hModule |-> d, plugin |-> i]

\* name() of a plugin object
PluginName(objects, i) == PluginModule(objects[i].dll).name

\* version() of a plugin object
PluginVersion(objects, i) == PluginModule(objects[i].dll).version

\* the plugins the engine specifications run against
RegisteredPlugins == {"mock", "faulty", "rogue"}

\* supportedActions(): the vocabulary, or an exception
PluginSupportedActions(p) ==
    CASE p = "faulty" -> [throws |-> "std", what |-> "vocabulary unavailable", actions |-> <<>>]
      [] p = "rogue"  -> [throws |-> "other", what |-> "", actions |-> <<>>]
      [] OTHER        -> [throws |-> "none", what |-> "",
                          actions |-> <<"click", "fail", "mute", "throw", "crash">>]

\* executeStep(param): a StepResult, or an exception
PluginExecuteStep(p, param) ==
    CASE param.action = "click" ->
            [throws |-> "none", what |-> "",
             result |-> [DefaultStepResult EXCEPT !.success = TRUE, !.message = "clicked"]]
      [] param.action = "fail" ->
            [throws |-> "none", what |-> "",
             result |-> [DefaultStepResult EXCEPT !.message = "control not found",
                                                  !.error_code = 7]]
      [] param.action = "mute" ->
            [throws |-> "none", what |-> "", result |-> DefaultStepResult]
      [] param.action = "throw" ->
            [throws |-> "std", what |-> "window vanished", result |-> DefaultStepResult]
      [] OTHER ->
            [throws |-> "other", what |-> "", result |-> DefaultStepResult]

---------------------------------------------------------------------------
(* PluginManager::getPlugin *)

\* lines 161-167: find, then plugin.get() of the handle or nullptr
getPlugin(registry, name) ==
    IF name \in DOMAIN registry THEN registry[name].plugin ELSE NullPlugin

\* lines 181-183
hasPlugin(registry, name) == name \in DOMAIN registry

SeqContains(s, x) == \E k \in 1..Len(s) : s[k] = x

---------------------------------------------------------------------------
(* PluginManager::loadPlugin *)

\* a registry without plugins
EmptyRegistry == [n \in {} |-> MkHandle("", NullPlugin)]

\* one call the PluginManager makes on the loader, on a module's entry
\* points or on a plugin object i constructed by module d
Ev(kind, d, i) == [ev |-> kind, module |-> d, inst |-> i]

Count(evs, kind, i) ==
    Cardinality({k \in 1..Len(evs) : evs[k].ev = kind /\ evs[k].inst = i})

CountModule(evs, kind, d) ==
    Cardinality({k \in 1..Len(evs) : evs[k].ev = kind /\ evs[k].module = d})

\* a validation that also wants a version
validatePlugin_NeedsVersion(objects, i) ==
    IF i = NullPlugin THEN FALSE
    ELSE IF PluginName(objects, i) = "" THEN FALSE
    ELSE IF PluginVersion(objects, i) = "" THEN FALSE
    ELSE TRUE

\* lines 185-201: a plugin object with a name; a missing version only warns
validatePlugin(objects, i) ==
    IF i = NullPlugin THEN FALSE
    ELSE IF PluginName(objects, i) = "" THEN FALSE
    ELSE TRUE

\* a duplicate check that lets every name through
IsRegistered_Never(registry, name) == FALSE

\* line 63: plugins_.find(pluginName) != plugins_.end()
IsRegistered(registry, name) == name \in DOMAIN registry

\* a rollback that keeps the module loaded
Rollback_KeepsModule(d, i) == <<Ev("destroyPlugin", d, i)>>

\* lines 56-58, 65-67, 73-75: destroyFunc(plugin); FreeLibrary(hModule)
Rollback(d, i) == <<Ev("destroyPlugin", d, i), Ev("FreeLibrary", d, i)>>

\* line 71: what plugin->initialize() returned
Initialized(m) == m.initOk

\* line 84: plugins_[pluginName] = std::move(handle)
Insert(registry, name, handle) ==
    [n \in DOMAIN registry \cup {name} |-> IF n = name THEN handle ELSE registry[n]]

\* lines 15-89: one call of loadPlugin(d) on a registry whose heap of plugin
\* objects is objects: what it returns, why, the calls it made and the
\* registry it leaves
loadPlugin(registry, objects, d) ==
    LET m    == PluginModule(d)
        i    == Len(objects) + 1
        heap == Append(objects, NewInstance(d))
        open == <<Ev("LoadLibrary", d, NullPlugin)>>
        made == open \o <<Ev("createPlugin", d, i)>>
        Rejected(why, evs) ==
            [ret |-> FALSE, why |-> why, events |-> evs, registry |-> registry]
    IN
    IF ~m.exists THEN Rejected("file not found", <<>>)
    ELSE IF ~m.loads THEN Rejected("load failed", <<>>)
    ELSE IF ~(GetProcAddress(m, "createPlugin") /\ GetProcAddress(m, "destroyPlugin"))
    THEN Rejected("missing entry point", open \o <<Ev("FreeLibrary", d, NullPlugin)>>)
    ELSE IF ~m.creates
    THEN Rejected("null instance", open \o <<Ev("createPlugin", d, NullPlugin),
                                             Ev("FreeLibrary", d, NullPlugin)>>)
    ELSE IF ~validatePlugin(heap, i) THEN Rejected("invalid", made \o Rollback(d, i))
    ELSE IF IsRegistered(registry, PluginName(heap, i))
    THEN Rejected("duplicate", made \o Rollback(d, i))
    ELSE IF ~Initialized(m)
    THEN Rejected("initialize failed",
                  made \o <<Ev("initialize", d, i)>> \o Rollback(d, i))
    ELSE [ret |-> TRUE, why |-> "", events |-> made \o <<Ev("initialize", d, i)>>,
          registry |-> Insert(registry, PluginName(heap, i), MkHandle(d, i))]

---------------------------------------------------------------------------
(* PluginManager::unloadPlugin, unloadAllPlugins *)

\* lines 119-125 and 137-141: uninitialize(), destroyFunc(plugin.release()),
\* FreeLibrary(hModule)
Release(d, i) ==
    <<Ev("uninitialize", d, i), Ev("destroyPlugin", d, i), Ev("FreeLibrary", d, i)>>

\* the three statements run on one handle.  A handle whose pointer was
\* released is dereferenced at address 0 (the process dies); an
\* uninitialize() that raises leaves the statements after it undone.
ReleaseHandle(objects, h) ==
    IF h.plugin = NullPlugin
    THEN [outcome |-> "crash", events |-> <<>>]
    ELSE IF PluginModule(objects[h.plugin].dll).uninitRaises
    THEN [outcome |-> "throws",
          events |-> <<Ev("uninitialize", h.hModule, h.plugin)>>]
    ELSE [outcome |-> "returned", events |-> Release(h.hModule, h.plugin)]

\* line 128: plugins_.erase(it)
Erase(registry, name) == [n \in DOMAIN registry \ {name} |-> registry[n]]

\* lines 112-132: one call of unloadPlugin(name)
unloadPlugin(registry, objects, name) ==
    IF ~IsRegistered(registry, name)
    THEN [ret |-> FALSE, outcome |-> "returned", events |-> <<>>, registry |-> registry]
    ELSE
    LET r == ReleaseHandle(objects, registry[name])
    IN  IF r.outcome = "returned"
        THEN [ret |-> TRUE, outcome |-> "returned", events |-> r.events,
              registry |-> Erase(registry, name)]
        ELSE [ret |-> FALSE, outcome |-> r.outcome, events |-> r.events,
              registry |-> registry]

\* the orders in which a loop over the unordered map can visit its entries
Orders(S) ==
    {f \in [1..Cardinality(S) -> S] : \A a, b \in 1..Cardinality(S) : a # b => f[a] # f[b]}

\* lines 135-142: the loop of unloadAllPlugins from the k-th entry of ord
\* on; an entry that was released keeps its name and a null pointer
RECURSIVE UnloadFrom(_, _, _, _, _)
UnloadFrom(registry, objects, ord, k, done) ==
    IF k > Len(ord)
    THEN [outcome |-> "returned", events |-> done, registry |-> registry]
    ELSE
    LET r == ReleaseHandle(objects, registry[ord[k]])
    IN  IF r.outcome = "returned"
        THEN UnloadFrom([registry EXCEPT ![ord[k]].plugin = NullPlugin],
                        objects, ord, k + 1, done \o r.events)
        ELSE [outcome |-> r.outcome, events |-> done \o r.events, registry |-> registry]

\* an unloadAllPlugins that leaves the released entries in the map
Clear_Forgotten(registry) == registry

\* line 146: plugins_.clear()
Clear(registry) == EmptyRegistry

\* lines 134-148: one call of unloadAllPlugins(); the map is cleared when
\* the loop came to its end
unloadAllPlugins(registry, objects, ord) ==
    LET l == UnloadFrom(registry, objects, ord, 1, <<>>)
    IN  IF l.outcome = "returned"
        THEN [outcome |-> "returned", events |-> l.events, registry |-> Clear(l.registry)]
        ELSE l

---------------------------------------------------------------------------
(* The calls on the PluginManager *)

NoCall ==
    [op |-> "none", arg |-> "", ret |-> FALSE, outcome |-> "none", why |-> "",
     events |-> <<>>, before |-> EmptyRegistry]

\* the counters of plugin object i after the calls evs
Touch(obj, evs, i) ==
    [obj EXCEPT !.initCalls    = @ + Count(evs, "initialize", i),
                !.uninitCalls  = @ + Count(evs, "uninitialize", i),
                !.destroyCalls = @ + Count(evs, "destroyPlugin", i),
                !.freeCalls    = @ + Count(evs, "FreeLibrary", i)]

Apply(objects, evs) == [i \in DOMAIN objects |-> Touch(objects[i], evs, i)]

\* the loader's reference counts after the calls evs
ApplyModules(refs, evs) ==
    [d \in DOMAIN refs |->
        refs[d] + CountModule(evs, "LoadLibrary", d) - CountModule(evs, "FreeLibrary", d)]

\* no plugin object has used up its calls of uninitialize()
CanUnload == \A i \in DOMAIN insts : insts[i].uninitCalls < MaxUninitCalls

\* the names callers ask about: those of the modules at hand and a stranger
AskedNames == ({PluginModule(d).name : d \in pluginDir} \ {""}) \cup {"ghost"}

\* loadPlugin(d).  The object a rejected call constructed is gone when the
\* call returns, so only registered objects are kept in insts.
LoadPlugin ==
    /\ manager = "alive"
    /\ Len(insts) < MaxInstances
    /\ \E d \in pluginDir :
          LET r == loadPlugin(plugins_, insts, d)
          IN  /\ plugins_' = r.registry
              /\ insts' = IF r.ret THEN Apply(Append(insts, NewInstance(d)), r.events)
                                    ELSE insts
              /\ modRefs' = ApplyModules(modRefs, r.events)
              /\ lastCall' = [op |-> "loadPlugin", arg |-> d, ret |-> r.ret,
                              outcome |-> "returned", why |-> r.why,
                              events |-> r.events, before |-> plugins_]
    /\ UNCHANGED <<manager, m_initialized, pluginDir, dataVars, resolveVars, restVars, threadVars, runVars>>

\* unloadPlugin(name)
UnloadPlugin ==
    /\ manager = "alive"
    /\ CanUnload
    /\ \E name \in AskedNames :
          LET r == unloadPlugin(plugins_, insts, name)
          IN  /\ plugins_' = r.registry
              /\ insts' = Apply(insts, r.events)
              /\ modRefs' = ApplyModules(modRefs, r.events)
              /\ manager' = IF r.outcome = "crash" THEN "terminated" ELSE manager
              /\ lastCall' = [op |-> "unloadPlugin", arg |-> name, ret |-> r.ret,
                              outcome |-> r.outcome, why |-> "",
                              events |-> r.events, before |-> plugins_]
    /\ UNCHANGED <<m_initialized, pluginDir, dataVars, resolveVars, restVars, threadVars, runVars>>

\* unloadAllPlugins()
UnloadAllPlugins ==
    /\ manager = "alive"
    /\ CanUnload
    /\ \E ord \in Orders(DOMAIN plugins_) :
          LET r == unloadAllPlugins(plugins_, insts, ord)
          IN  /\ plugins_' = r.registry
              /\ insts' = Apply(insts, r.events)
              /\ modRefs' = ApplyModules(modRefs, r.events)
              /\ manager' = IF r.outcome = "crash" THEN "terminated" ELSE manager
              /\ lastCall' = [op |-> "unloadAllPlugins", arg |-> "", ret |-> FALSE,
                              outcome |-> r.outcome, why |-> "",
                              events |-> r.events, before |-> plugins_]
    /\ UNCHANGED <<m_initialized, pluginDir, dataVars, resolveVars, restVars, threadVars, runVars>>

\* ~PluginManager(): unloadAllPlugins(); an exception that leaves the
\* destructor ends the process (std::terminate)
DestroyManager ==
    /\ manager = "alive"
    /\ CanUnload
    /\ \E ord \in Orders(DOMAIN plugins_) :
          LET r == unloadAllPlugins(plugins_, insts, ord)
          IN  /\ plugins_' = r.registry
              /\ insts' = Apply(insts, r.events)
              /\ modRefs' = ApplyModules(modRefs, r.events)
              /\ manager' = IF r.outcome = "returned" THEN "destroyed" ELSE "terminated"
              /\ lastCall' = [op |-> "~PluginManager", arg |-> "", ret |-> FALSE,
                              outcome |-> r.outcome, why |-> "",
                              events |-> r.events, before |-> plugins_]
    /\ UNCHANGED <<m_initialized, pluginDir, dataVars, resolveVars, restVars, threadVars, runVars>>

\* what a caller can observe of the core and its components
CoreSnapshot ==
    [initialized |-> m_initialized, manager |-> manager, engine |-> m_testEngine,
     data |-> m_dataManager, registry |-> plugins_, objects |-> insts,
     modules |-> modRefs, store |-> dataVars]

\* AutomationCore::uninitialize() on an initialized core: m_testEngine.reset(),
\* unloadAllPlugins(), then m_pluginManager.reset(), whose destructor calls
\* unloadAllPlugins() once more (ord2 is its order, over what the first call
\* left), then m_dataManager.reset() and m_initialized = false.  An
\* exception of the first call leaves uninitialize() before the reset of
\* the plugin manager, with the engine gone and the flag still set.
CoreUninitialize ==
    /\ m_initialized
    /\ manager = "alive"
    /\ CanUnload
    /\ m_testEngine' = "null"
    /\ \E ord \in Orders(DOMAIN plugins_) :
          LET r == unloadAllPlugins(plugins_, insts, ord)
          IN  IF r.outcome = "returned"
              THEN \E ord2 \in Orders(DOMAIN r.registry) :
                     LET r2 == unloadAllPlugins(r.registry, Apply(insts, r.events), ord2)
                         evs == r.events \o r2.events
                     IN  /\ plugins_' = r2.registry
                         /\ insts' = Apply(insts, evs)
                         /\ modRefs' = ApplyModules(modRefs, evs)
                         /\ manager' = IF r2.outcome = "returned" THEN "destroyed"
                                                                  ELSE "terminated"
                         /\ m_dataManager' = IF r2.outcome = "returned" THEN "null"
                                                                        ELSE m_dataManager
                         /\ m_initialized' = (r2.outcome # "returned")
                         /\ lastCall' = [op |-> "uninitialize", arg |-> "", ret |-> FALSE,
                                         outcome |-> r2.outcome, why |-> "",
                                         events |-> evs, before |-> plugins_]
                         /\ lastCore' = [op |-> "uninitialize", arg |-> "",
                                         ret |-> r2.outcome, before |-> CoreSnapshot, thrown |-> "none", what |-> ""]
              ELSE /\ plugins_' = r.registry
                   /\ insts' = Apply(insts, r.events)
                   /\ modRefs' = ApplyModules(modRefs, r.events)
                   /\ manager' = IF r.outcome = "crash" THEN "terminated" ELSE manager
                   /\ m_dataManager' = m_dataManager
                   /\ m_initialized' = m_initialized
                   /\ lastCall' = [op |-> "uninitialize", arg |-> "", ret |-> FALSE,
                                   outcome |-> r.outcome, why |-> "",
                                   events |-> r.events, before |-> plugins_]
                   /\ lastCore' = [op |-> "uninitialize", arg |-> "",
                                   ret |-> r.outcome, before |-> CoreSnapshot, thrown |-> "none", what |-> ""]
    /\ UNCHANGED <<pluginDir, dataVars, resolveVars, lastParallel, exceptCore, threadVars,
                   runVars>>

NextRegistry ==
    LoadPlugin \/ UnloadPlugin \/ UnloadAllPlugins \/ DestroyManager \/ CoreUninitialize

---------------------------------------------------------------------------
(* TestEngine::executeTestStep *)

\* the error codes executeTestStep assigns
ErrPluginNotFound == -1
ErrUnsupportedAction == -2
ErrStdException == -3
ErrUnknownException == -4

Call(op, step, plugin, param) ==
    [op |-> op, step_id |-> step.id, plugin |-> plugin, param |-> param]

\* lines 267-273: the plugin is not in the registry
PluginNotFoundResult_NoCode(step) ==
    [DefaultStepResult EXCEPT !.message = "Plugin not found: " \o step.plugin_name]

PluginNotFoundResult(step) ==
    [DefaultStepResult EXCEPT !.error_code = ErrPluginNotFound,
                              !.message = "Plugin not found: " \o step.plugin_name]

\* lines 278-284: the action is not in the plugin's vocabulary
UnsupportedActionResult(step) ==
    [DefaultStepResult EXCEPT !.error_code = ErrUnsupportedAction,
                              !.message = "Plugin " \o step.plugin_name
                                          \o " does not support action: "
                                          \o step.param.action]

\* line 278: std::find over the vocabulary
ActionSupported_Unchecked(actions, action) == TRUE

ActionSupported(actions, action) == SeqContains(actions, action)

\* lines 311-324: the catch clauses of executeTestStep
CatchInStep(throws, what) ==
    IF throws = "std"
    THEN [DefaultStepResult EXCEPT !.error_code = ErrStdException,
                                   !.message = "Exception occurred: " \o what]
    ELSE [DefaultStepResult EXCEPT !.error_code = ErrUnknownException,
                                   !.message = "Unknown exception occurred"]

\* a dispatch that calls executeStep again when the first call did not succeed
TryStepOn_Retry(ptr, step) ==
    LET plugin == IF ptr = NullPlugin THEN "nullptr" ELSE PluginName(insts, ptr)
        lookup == <<Call("getPlugin", step, step.plugin_name, step.param)>>
        sa     == PluginSupportedActions(plugin)
        asked  == lookup \o <<Call("supportedActions", step, plugin, step.param)>>
        ex     == PluginExecuteStep(plugin, step.param)
        once   == <<Call("executeStep", step, plugin, step.param)>>
    IN
    IF ptr = NullPlugin
    THEN [throws |-> "none", what |-> "", result |-> PluginNotFoundResult(step),
          calls |-> lookup]
    ELSE IF sa.throws # "none"
    THEN [throws |-> sa.throws, what |-> sa.what, result |-> DefaultStepResult,
          calls |-> asked]
    ELSE IF ~ActionSupported(sa.actions, step.param.action)
    THEN [throws |-> "none", what |-> "", result |-> UnsupportedActionResult(step),
          calls |-> asked]
    ELSE [throws |-> ex.throws, what |-> ex.what, result |-> ex.result,
          calls |-> asked \o once
                    \o (IF ex.throws = "none" /\ ex.result.success THEN <<>> ELSE once)]

\* lines 267-309: the try block of executeTestStep behind line 266, where
\* getPlugin returned ptr.  It ends with a StepResult (throws = "none") or
\* with the exception a plugin call raised; calls are the calls made on the
\* registry and the plugin.  The StepParam handed to the plugin is
\* step.param as declared.
TryStepOn(ptr, step) ==
    LET plugin == IF ptr = NullPlugin THEN "nullptr" ELSE PluginName(insts, ptr)
        lookup == <<Call("getPlugin", step, step.plugin_name, step.param)>>
    IN
    IF ptr = NullPlugin
    THEN [throws |-> "none", what |-> "", result |-> PluginNotFoundResult(step),
          calls |-> lookup]
    ELSE
    LET sa == PluginSupportedActions(plugin)
        asked == lookup \o <<Call("supportedActions", step, plugin, step.param)>>
    IN
    IF sa.throws # "none"
    THEN [throws |-> sa.throws, what |-> sa.what, result |-> DefaultStepResult,
          calls |-> asked]
    ELSE
    IF ~ActionSupported(sa.actions, step.param.action)
    THEN [throws |-> "none", what |-> "", result |-> UnsupportedActionResult(step),
          calls |-> asked]
    ELSE
    LET ex == PluginExecuteStep(plugin, step.param)
    IN  [throws |-> ex.throws, what |-> ex.what, result |-> ex.result,
         calls |-> asked \o <<Call("executeStep", step, plugin, step.param)>>]

\* lines 265-309: the try block of executeTestStep, from its getPlugin on
TryStep(registry, step) == TryStepOn(getPlugin(registry, step.plugin_name), step)

\* executeTestStep without its catch clauses: the exception leaves the call
executeTestStep_NoCatch(registry, step) ==
    LET t == TryStep(registry, step)
    IN  [escaped |-> t.throws, what |-> t.what,
         res |-> [step_id |-> step.id, result |-> t.result],
         calls |-> t.calls]

\* lines 252-339: one call of executeTestStep: the StepExecutionResult it
\* returns, the exception that escapes it (none does) and the calls it made
executeTestStep(registry, step) ==
    LET t == TryStep(registry, step)
    IN  [escaped |-> "none", what |-> "",
         res |-> [step_id |-> step.id,
                  result |-> IF t.throws = "none" THEN t.result
                             ELSE CatchInStep(t.throws, t.what)],
         calls |-> t.calls]

\* lines 267-339: the rest of a call of executeTestStep whose getPlugin
\* (line 266) returned ptr
executeTestStepOn(ptr, step) ==
    LET t == TryStepOn(ptr, step)
    IN  [escaped |-> "none", what |-> "",
         res |-> [step_id |-> step.id,
                  result |-> IF t.throws = "none" THEN t.result
                             ELSE CatchInStep(t.throws, t.what)],
         calls |-> t.calls]

---------------------------------------------------------------------------
(* TestEngine::executeTestCase *)

\* executeSetup: the hook is a stub that logs and reports success
executeSetup(script) == TRUE

\* the loop's break taken on every failure / never / only for required steps
StopsRun_Never(stepResult, step) == FALSE

StopsRun_UnlessOptional(stepResult, step) ==
    ~stepResult.result.success /\ step.stop_on_failure /\ ~step.is_optional

\* line 189: the test of the loop's break
StopsRun(stepResult, step) == ~stepResult.result.success /\ step.stop_on_failure

\* a stop-on-failure exit that skips the teardown hook
AfterLoop_StopSkipsTeardown(stopped) == IF stopped THEN "aggregate" ELSE "teardown"

\* lines 192-197: where the run goes when the step loop is left, by break
\* (stopped) or at the end of the list
AfterLoop(stopped) == "teardown"

\* an overall result that counts optional steps too
overallSuccess_CountsOptional(stepResults, steps) ==
    ~ \E k \in 1..Len(stepResults) : ~stepResults[k].result.success

\* lines 204-213: the overall result: false iff a recorded step failed and the step declared
\* at the same position is not optional
overallSuccess(stepResults, steps) ==
    ~ \E k \in 1..Len(stepResults) :
          ~stepResults[k].result.success /\ ~steps[k].is_optional

\* the catch clauses of executeTestCase
CatchInCase(res, throws, what) ==
    [res EXCEPT !.overall_success = FALSE,
                !.error_message = IF throws = "std"
                                  THEN "Exception occurred: " \o what
                                  ELSE "Unknown exception occurred"]

\* lines 166-180: the setup hook, and the short-circuit when it fails
RunSetup ==
    /\ pc = "setup"
    /\ IF testCase.setup_script # ""
       THEN /\ calls' = Append(calls, [op |-> "executeSetup", step_id |-> 0,
                                       plugin |-> "", param |-> testCase.setup_script])
            /\ IF ~executeSetup(testCase.setup_script)
               THEN /\ result' = [result EXCEPT !.overall_success = FALSE,
                                                !.error_message = "Setup script failed",
                                                !.stamped = TRUE]
                    /\ pc' = "done"
               ELSE /\ result' = result
                    /\ pc' = IF Len(testCase.steps) = 0 THEN AfterLoop(FALSE) ELSE "steps"
       ELSE /\ calls' = calls
            /\ result' = result
            /\ pc' = IF Len(testCase.steps) = 0 THEN AfterLoop(FALSE) ELSE "steps"
    /\ UNCHANGED <<regVars, testCase, plugins_, dataVars, resolveVars, restVars, threadVars, stepIdx>>

\* a loop that walks the step list from its end
StepAt_Backwards(steps, k) == steps[Len(steps) + 1 - k]

\* line 183: the element the range-for visits in its k-th iteration
StepAt(steps, k) == steps[k]

\* lines 183-194: one iteration of the step loop
RunStep ==
    /\ pc = "steps"
    /\ stepIdx <= Len(testCase.steps)
    /\ LET step == StepAt(testCase.steps, stepIdx)
           r    == executeTestStep(plugins_, step)
       IN  /\ calls' = calls \o r.calls
           /\ IF r.escaped # "none"
              THEN /\ result' = CatchInCase(result, r.escaped, r.what)
                   /\ pc' = "finish"
                   /\ stepIdx' = stepIdx
              ELSE /\ result' = [result EXCEPT
                                    !.step_results = Append(@, r.res)]
                   /\ stepIdx' = stepIdx + 1
                   /\ pc' = IF StopsRun(r.res, step)
                            THEN AfterLoop(TRUE)
                            ELSE IF stepIdx + 1 > Len(testCase.steps)
                                 THEN AfterLoop(FALSE)
                                 ELSE "steps"
    /\ UNCHANGED <<regVars, testCase, plugins_, dataVars, resolveVars, restVars, threadVars>>

\* lines 196-201: the teardown hook
RunTeardown ==
    /\ pc = "teardown"
    /\ calls' = IF testCase.teardown_script # ""
                THEN Append(calls, [op |-> "executeTeardown", step_id |-> 0,
                                    plugin |-> "", param |-> testCase.teardown_script])
                ELSE calls
    /\ pc' = "aggregate"
    /\ UNCHANGED <<regVars, testCase, plugins_, dataVars, resolveVars, restVars, threadVars, stepIdx, result>>

\* lines 203-216: the overall result
ComputeOverall ==
    /\ pc = "aggregate"
    /\ result' = [result EXCEPT
                     !.overall_success = overallSuccess(result.step_results, testCase.steps)]
    /\ pc' = "finish"
    /\ UNCHANGED <<regVars, testCase, plugins_, dataVars, resolveVars, restVars, threadVars, stepIdx, calls>>

\* lines 231-236: end time, total duration, return
Finish ==
    /\ pc = "finish"
    /\ result' = [result EXCEPT !.stamped = TRUE]
    /\ pc' = "done"
    /\ UNCHANGED <<regVars, testCase, plugins_, dataVars, resolveVars, restVars, threadVars, stepIdx, calls>>

Next == RunSetup \/ RunStep \/ RunTeardown \/ ComputeOverall \/ Finish

---------------------------------------------------------------------------
(* AutomationCore::executeTestCase *)

\* lines 236-240 and 250: a core that is not initialized returns a
\* default-constructed TestExecutionResult; an initialized core calls
\* TestEngine::executeTestCase and returns what it returns
CoreExecuteTestCase ==
    /\ pc = "call"
    /\ IF ~m_initialized \/ m_testEngine = "null"
       THEN /\ result' = DefaultExecutionResult
            /\ pc' = "done"
       ELSE /\ result' = result
            /\ pc' = "setup"
    /\ UNCHANGED <<regVars, testCase, plugins_, dataVars, resolveVars, restVars, threadVars, stepIdx, calls>>

NextCore == CoreExecuteTestCase \/ Next

---------------------------------------------------------------------------
(* Inputs *)

\* the setup and teardown scripts a case may declare ("" declares none)
AllScripts == { <<su, td>> : su \in {"", "open app"}, td \in {"", "close app"} }
SomeScripts == { <<"", "">>, <<"open app", "close app">> }

\* the test cases with at most n steps whose steps, ids apart, come from
\* pool; the step at position k carries id k
CasesOver(pool, n, scripts) ==
    UNION { { [steps |-> [k \in 1..m |-> [f[k] EXCEPT !.id = k]],
               setup_script |-> sc[1], teardown_script |-> sc[2]] :
                f \in [1..m -> pool], sc \in scripts } :
            m \in 0..n }

\* every way a dispatch can go, each with and without stop_on_failure
DispatchPool ==
    { MkStep(0, pa[1], pa[2], <<>>, <<>>, FALSE, sof) :
        pa \in { <<"mock", "click">>, <<"mock", "fail">>, <<"mock", "throw">>,
                 <<"mock", "crash">>, <<"mock", "bogus">>, <<"ghost", "click">>,
                 <<"faulty", "click">>, <<"rogue", "click">> },
        sof \in BOOLEAN }

\* failing steps under every combination of the two flags, and succeeding
\* steps, optional or not
PolicyPool ==
    { MkStep(0, "mock", "fail", <<>>, <<>>, opt, sof) : opt \in BOOLEAN, sof \in BOOLEAN }
    \cup { MkStep(0, "mock", "click", <<>>, <<>>, opt, TRUE) : opt \in BOOLEAN }

\* the store of the data-driven test: dataset A with item x = "5"
StoreSets == (1 :> [name |-> Str1("A"),
                    items |-> << [id |-> 0, name |-> Str1("x"), value |-> Str1("5")] >>])
StoreNameMap == (Str1("A") :> 1)

\* steps whose target and value are plain text, a token the store resolves
\* or a token it does not
DataPool ==
    { MkStep(0, "mock", "click", tgt, val, FALSE, TRUE) :
        tgt \in { <<"E", "d">>, Token(Str1("A"), Str1("x")), Token(Str1("B"), Str1("x")) },
        val \in { <<>>, Token(Str1("A"), Str1("x")) } }

\* the registry and heap after the engine's three plugins were loaded
EngineModules == <<"mock.dll", "faulty.dll", "rogue.dll">>

EngineInstances ==
    [i \in 1..Len(EngineModules) |->
        [NewInstance(EngineModules[i]) EXCEPT !.initCalls = 1]]

EngineRegistry ==
    [n \in RegisteredPlugins |->
        LET i == CHOOSE j \in 1..Len(EngineModules) : PluginModule(EngineModules[j]).name = n
        IN  MkHandle(EngineModules[i], i)]

InitOver(pool, n, scripts) ==
    /\ testCase \in CasesOver(pool, n, scripts)
    /\ plugins_ = EngineRegistry
    /\ insts = EngineInstances
    /\ modRefs = [d \in AllModules |-> IF SeqContains(EngineModules, d) THEN 1 ELSE 0]
    /\ manager = "alive"
    /\ m_initialized = TRUE
    /\ lastCall = NoCall
    /\ pluginDir = {}
    /\ dataSets_ = StoreSets
    /\ dataSetNameMap_ = StoreNameMap
    /\ nextDataSetId_ = 2
    /\ nextDataItemId_ = 2
    /\ NoResolution
    /\ NoThreads
    /\ NoRest
    /\ pc = "setup"
    /\ stepIdx = 1
    /\ result = DefaultExecutionResult
    /\ calls = <<>>

Init == InitOver(DispatchPool, MaxSteps, SomeScripts)
InitPolicy == InitOver(PolicyPool, MaxPolicySteps, AllScripts)
InitData == InitOver(DataPool, MaxSteps, SomeScripts)

Spec == Init /\ [][Next]_vars
SpecPolicy == InitPolicy /\ [][Next]_vars
SpecData == InitData /\ [][Next]_vars

\* every way a step can end; the failures a plugin returns or raises as
\* std::exception come with and without stop_on_failure
CorePool ==
    { MkStep(0, "mock", a, <<>>, <<>>, FALSE, sof) :
        a \in {"fail", "mute", "throw"}, sof \in BOOLEAN }
    \cup { MkStep(0, pa[1], pa[2], <<>>, <<>>, FALSE, TRUE) :
             pa \in { <<"mock", "click">>, <<"mock", "crash">>, <<"ghost", "click">> } }

\* a call of AutomationCore::executeTestCase on a core that was initialized
\* or was not (it then has neither engine nor plugin manager)
InitCore ==
    /\ testCase \in CasesOver(CorePool, MaxSteps, SomeScripts)
    /\ m_initialized \in BOOLEAN
    /\ plugins_ = IF m_initialized THEN EngineRegistry ELSE EmptyRegistry
    /\ insts = IF m_initialized THEN EngineInstances ELSE <<>>
    /\ modRefs = [d \in AllModules |->
                    IF m_initialized /\ SeqContains(EngineModules, d) THEN 1 ELSE 0]
    /\ manager = IF m_initialized THEN "alive" ELSE "none"
    /\ lastCall = NoCall
    /\ pluginDir = {}
    /\ dataSets_ = StoreSets
    /\ dataSetNameMap_ = StoreNameMap
    /\ nextDataSetId_ = 2
    /\ nextDataItemId_ = 2
    /\ NoResolution
    /\ NoThreads
    /\ NoRest
    /\ pc = "call"
    /\ stepIdx = 1
    /\ result = DefaultExecutionResult
    /\ calls = <<>>

\* the call runs on one thread that nothing suspends: whenever a step of it
\* can be taken, one is
SpecCore == InitCore /\ [][NextCore]_vars /\ WF_vars(NextCore)

\* a PluginManager just constructed by an initialized core; no case runs
InitRegistryOver(dir) ==
    /\ plugins_ = EmptyRegistry
    /\ insts = <<>>
    /\ modRefs = [d \in AllModules |-> 0]
    /\ manager = "alive"
    /\ m_initialized = TRUE
    /\ lastCall = NoCall
    /\ pluginDir = dir
    /\ testCase = [steps |-> <<>>, setup_script |-> "", teardown_script |-> ""]
    /\ dataSets_ = StoreSets
    /\ dataSetNameMap_ = StoreNameMap
    /\ nextDataSetId_ = 2
    /\ nextDataItemId_ = 2
    /\ NoResolution
    /\ NoThreads
    /\ NoRest
    /\ pc = "idle"
    /\ stepIdx = 1
    /\ result = DefaultExecutionResult
    /\ calls = <<>>

\* modules whose hooks return
SoundModules == {"a.dll", "a2.dll", "b.dll", "badinit.dll", "anon.dll", "null.dll",
                 "noentry.dll", "corrupt.dll", "TestAutomation.dll", "absent.dll"}

\* the same with a module whose plugin raises in uninitialize()
RaisingModules == SoundModules \cup {"r.dll"}

InitRegistry == InitRegistryOver(SoundModules)
InitRegistryRaising == InitRegistryOver(RaisingModules)

SpecRegistry == InitRegistry /\ [][NextRegistry]_vars
SpecRegistryRaising == InitRegistryRaising /\ [][NextRegistry]_vars

---------------------------------------------------------------------------
(* Resolution calls on a store *)

\* the references the scan of substituteDataReferences meets in t
RECURSIVE ReferencesIn(_)
ReferencesIn(t) ==
    LET m == regex_search(t)
    IN  IF ~m.found THEN {} ELSE {FullMatch(t, m)} \cup ReferencesIn(Suffix(t, m))

\* what callers pass to resolveDataReference: the text, or a reference in it
ResolveArgs == {inputText} \cup ReferencesIn(inputText)

\* what callers pass to the two substitutions: the text, or what one of them
\* made of it
SubstituteArgs ==
    {inputText, substituteDataReferences(dataSets_, dataSetNameMap_, inputText).ret}
    \cup (LET r == resolveDataReferences(m_initialized, dataSets_, dataSetNameMap_, inputText)
          IN  IF r.thrown.type = "none" THEN {r.ret} ELSE {})

\* the record of a call that met the store as it is now
Resolved(op, arg, thrown, ret) ==
    [op |-> op, arg |-> arg, thrown |-> thrown, ret |-> ret,
     sets |-> dataSets_, nameMap |-> dataSetNameMap_,
     nextSet |-> nextDataSetId_, nextItem |-> nextDataItemId_]

\* TestDataManager::resolveDataReference(arg)
ResolveDataReference ==
    /\ \E arg \in ResolveArgs :
          LET r == resolveDataReference(dataSets_, dataSetNameMap_, arg)
          IN  /\ dataSets_' = r.sets
              /\ dataSetNameMap_' = r.nameMap
              /\ lastResolve' = Resolved("resolveDataReference", arg, r.thrown, r.value)
    /\ prevResolve' = lastResolve
    /\ UNCHANGED <<nextDataSetId_, nextDataItemId_, inputText, plugins_, regVars, runVars,
                   threadVars, restVars>>

\* TestDataManager::substituteDataReferences(arg)
SubstituteDataReferences ==
    /\ \E arg \in SubstituteArgs :
          LET r == substituteDataReferences(dataSets_, dataSetNameMap_, arg)
          IN  /\ dataSets_' = r.sets
              /\ dataSetNameMap_' = r.nameMap
              /\ lastResolve' = Resolved("substituteDataReferences", arg, r.thrown, r.ret)
    /\ prevResolve' = lastResolve
    /\ UNCHANGED <<nextDataSetId_, nextDataItemId_, inputText, plugins_, regVars, runVars,
                   threadVars, restVars>>

\* AutomationCore::resolveDataReferences(arg)
CoreResolveDataReferences ==
    /\ \E arg \in SubstituteArgs :
          LET r == resolveDataReferences(m_initialized, dataSets_, dataSetNameMap_, arg)
          IN  /\ dataSets_' = r.sets
              /\ dataSetNameMap_' = r.nameMap
              /\ lastResolve' = Resolved("resolveDataReferences", arg, r.thrown, r.ret)
    /\ prevResolve' = lastResolve
    /\ UNCHANGED <<nextDataSetId_, nextDataItemId_, inputText, plugins_, regVars, runVars,
                   threadVars, restVars>>

NextResolve == ResolveDataReference \/ SubstituteDataReferences \/ CoreResolveDataReferences

\* TestDataItem, as far as the model keeps it
TestDataItem(id, n, v) == [id |-> id, name |-> n, value |-> v]

\* an item a caller fills in, with the id 0
MkItem(n, v) == TestDataItem(0, n, v)
MkDataSet(n, items) == [name |-> n, items |-> items]
MkStore(sets, nameMap, nextSet, nextItem) ==
    [sets |-> sets, nameMap |-> nameMap, nextSet |-> nextSet, nextItem |-> nextItem]

\* the tokens and fragments the texts are made of
TokAx == Token(Str1("A"), Str1("x"))
TokAy == Token(Str1("A"), Str1("y"))
TokAz == Token(Str1("A"), Str1("z"))
TokBx == Token(Str1("B"), Str1("x"))
TokCx == Token(Str1("C"), Str1("x"))
NoDot == <<"$", "{", "q", "}">>
Open  == <<"$", "{">>
Sp    == Str1(" ")

\* stores: plain values in two datasets; a value that is a token of another
\* item; a value that holds its own token; an empty value; no dataset at all
ResolveStores ==
    { MkStore((1 :> MkDataSet(Str1("A"), <<MkItem(Str1("x"), Str1("5")),
                                           MkItem(Str1("y"), Str1("7"))>>))
              @@ (2 :> MkDataSet(Str1("B"), <<MkItem(Str1("x"), Str1("9"))>>)),
              (Str1("A") :> 1) @@ (Str1("B") :> 2), 3, 4),
      MkStore((1 :> MkDataSet(Str1("A"), <<MkItem(Str1("x"), TokAy),
                                           MkItem(Str1("y"), Str1("7"))>>)),
              (Str1("A") :> 1), 2, 3),
      MkStore((1 :> MkDataSet(Str1("A"), <<MkItem(Str1("x"), Str1("a") \o TokAx),
                                           MkItem(Str1("y"), Str1("7"))>>)),
              (Str1("A") :> 1), 2, 3),
      MkStore((1 :> MkDataSet(Str1("A"), <<MkItem(Str1("x"), <<>>),
                                           MkItem(Str1("y"), Str1("7"))>>)),
              (Str1("A") :> 1), 2, 3),
      MkStore(<<>>, <<>>, 1, 1) }

\* texts: one token, two different ones, the same one twice, tokens the store
\* may not resolve, malformed tokens before and after a well-formed one,
\* plain text and the empty text
ResolveTexts ==
    { TokAx, TokAx \o Sp \o TokAy, TokAy \o TokAx, TokAx \o TokAx,
      TokAx \o Sp \o TokAx \o Sp \o TokAy,
      TokAz, TokCx, TokBx \o TokAx, TokCx \o Sp \o TokAx, TokAz \o TokAx, TokCx \o TokAz,
      NoDot \o TokAx, NoDot \o Sp \o TokAx, Open \o TokAx, Open \o Sp \o TokAx,
      TokAx \o Open, TokAx \o NoDot, NoDot \o TokAx \o NoDot \o TokAx,
      Str1("a") \o TokAx \o Str1("b"), TokAx \o Str1("}"),
      <<"$", "{", ".", "x", "}">>, <<"$", "{", "A", ".", "}">>,
      <<"$", "{", "A", ".", "x", ".", "y", "}">>,
      NoDot, Open, <<"a", "b">>, <<>> }

\* a TestDataManager holding one of the stores, behind an initialized core,
\* and a text to resolve; no plugin is loaded and no case runs
InitResolve ==
    /\ plugins_ = EmptyRegistry
    /\ insts = <<>>
    /\ modRefs = [d \in AllModules |-> 0]
    /\ manager = "alive"
    /\ m_initialized = TRUE
    /\ lastCall = NoCall
    /\ pluginDir = {}
    /\ testCase = [steps |-> <<>>, setup_script |-> "", teardown_script |-> ""]
    /\ \E st \in ResolveStores :
          /\ dataSets_ = st.sets
          /\ dataSetNameMap_ = st.nameMap
          /\ nextDataSetId_ = st.nextSet
          /\ nextDataItemId_ = st.nextItem
    /\ inputText \in ResolveTexts
    /\ prevResolve = NoResolve
    /\ lastResolve = NoResolve
    /\ NoThreads
    /\ NoRest
    /\ pc = "idle"
    /\ stepIdx = 1
    /\ result = DefaultExecutionResult
    /\ calls = <<>>

SpecResolve == InitResolve /\ [][NextResolve]_vars

---------------------------------------------------------------------------
(* A case run in one thread, calls on the PluginManager and
   AutomationCore::uninitialize in another.  No class has a lock, so the
   calls of the second thread can fall between any two statements of the
   first; here they fall before a phase of executeTestCase, into the lookup
   of executeTestStep (line 266), or between the lookup and the use of what
   it returned (lines 277-288). *)

\* the plugin object behind ptr was destroyed, or the module that holds its
\* code was released
Dangling(ptr) ==
    ptr # NullPlugin /\ (insts[ptr].destroyCalls > 0 \/ insts[ptr].freeCalls > 0)

\* a call of the other thread that writes plugins_ can be under way: a
\* loadPlugin that registers (PluginManager.cpp line 85), an unloadPlugin
\* that erases (line 128), or an unloadAllPlugins or uninitialize, whose
\* plugins_.clear() (line 146) writes the map also when it is empty
RegistryWriteAtHand ==
    /\ manager = "alive"
    /\ \/ CanUnload
       \/ Len(insts) < MaxInstances
          /\ \E d \in pluginDir : loadPlugin(plugins_, insts, d).ret

\* uninitialize() of the other thread has destroyed the TestEngine whose
\* executeTestCase the case run is in (part_001 line 123)
EngineGone == m_testEngine # "alive"

\* what a statement of the run that uses a member of the engine does: log()
\* appends to execution_log_ (ReportGenerator.h line 348), line 266 reads
\* plugin_manager_, line 331 reads verbose_logging_.  On a destroyed engine
\* that is a use of freed memory, undefined behaviour: it faults, goes on
\* as on the memory the engine left, or the append to what was a
\* std::string throws.  An exception thrown inside the try block of
\* executeTestCase is caught by its catch clause (lines 218-223); the log
\* of that clause uses the engine again, and when it throws too the
\* exception leaves the engine and reaches the catch clause of
\* AutomationCore::executeTestCase (part_001 lines 268-288).
EngineOutcomes == IF EngineGone THEN {"stale", "fault", "thrown", "caught"} ELSE {"sound"}

\* what() of the exceptions the append to a destroyed std::string throws:
\* the std::length_error of its two length checks, and std::bad_alloc
StaleThrows == {"basic_string::_M_create", "basic_string::append", "std::bad_alloc"}

\* part_001 lines 268-288: the result AutomationCore::executeTestCase
\* builds in its catch clause
CoreCatchResult(what) ==
    [DefaultExecutionResult EXCEPT
        !.step_results = <<[step_id |-> 0,
                            result |-> [DefaultStepResult EXCEPT
                                           !.message = "Exception: " \o what]]>>]

\* how the run leaves the statement at hand on a destroyed engine when it
\* does not go on: the process ends; the exception reaches
\* AutomationCore::executeTestCase, which returns the result of its catch
\* clause, not stamped; or the catch clause of the engine's executeTestCase
\* handles it and the run goes to the stamping of lines 231-236
RunLeaves(how, newCalls) ==
    /\ \E what \in (IF how = "fault" THEN {""} ELSE StaleThrows) :
          /\ pc' = CASE how = "fault"  -> "crashed"
                     [] how = "thrown" -> "done"
                     [] how = "caught" -> "finish"
          /\ result' = CASE how = "fault"  -> result
                         [] how = "thrown" -> CoreCatchResult(what)
                         [] how = "caught" -> CatchInCase(result, "std", what)
    /\ manager' = IF how = "fault" THEN "terminated" ELSE manager
    /\ calls' = calls \o newCalls
    /\ UNCHANGED <<insts, modRefs, m_initialized, lastCall, pluginDir, testCase, plugins_,
                   dataVars, resolveVars, restVars, subPc, subResult, subTemp, writing,
                   reads, stepIdx>>

\* ReportGenerator.h lines 162-180: the log of the start (line 162, before
\* the try block), which uses the engine, and the setup hook, which uses it
\* inside the try block when there is a setup script
RunSetupOfEngine ==
    \E how \in (IF testCase.setup_script # "" THEN EngineOutcomes
                ELSE EngineOutcomes \ {"caught"}) :
       IF how \in {"fault", "thrown", "caught"}
       THEN pc = "setup" /\ RunLeaves(how, <<>>) /\ UNCHANGED heldPlugin
       ELSE RunSetup

\* lines 196-201: the teardown hook, which uses the engine when there is a
\* teardown script
RunTeardownOfEngine ==
    \E how \in (IF testCase.teardown_script # "" THEN EngineOutcomes ELSE {"sound"}) :
       IF how \in {"fault", "thrown", "caught"}
       THEN pc = "teardown" /\ RunLeaves(how, <<>>) /\ UNCHANGED heldPlugin
       ELSE RunTeardown

\* lines 203-216: the overall result and the log of it, which uses the
\* engine
ComputeOverallOfEngine ==
    \E how \in EngineOutcomes :
       IF how \in {"fault", "thrown", "caught"}
       THEN pc = "aggregate" /\ RunLeaves(how, <<>>) /\ UNCHANGED heldPlugin
       ELSE ComputeOverall

\* what plugins_.find does in getPlugin (PluginManager.cpp lines 161-167).
\* A find that overlaps a write of the other thread is a data race, and a
\* find on the registry of a PluginManager that uninitialize() has destroyed
\* reads freed memory, as do the log of line 261 and the read of
\* plugin_manager_ on a destroyed engine: all are undefined behaviour,
\* which faults or returns what the registry holds before or after the
\* other call.  The log of line 261 on a destroyed engine can throw as
\* well; it stands before the try block of executeTestStep, so the
\* exception goes to the catch clause of executeTestCase.
LookupOutcomes ==
    IF EngineGone THEN {"found", "fault", "thrown", "caught"}
    ELSE IF manager = "destroyed" \/ RegistryWriteAtHand THEN {"found", "fault"}
    ELSE {"found"}

\* ReportGenerator.h lines 252-266: the log of the step and
\* plugin = plugin_manager_->getPlugin(...)
GetPluginOfStep ==
    /\ pc = "steps"
    /\ stepIdx <= Len(testCase.steps)
    /\ \E how \in LookupOutcomes :
          IF how \in {"fault", "thrown", "caught"}
          THEN RunLeaves(how, <<>>) /\ UNCHANGED heldPlugin
          ELSE /\ heldPlugin' = getPlugin(plugins_,
                                         StepAt(testCase.steps, stepIdx).plugin_name)
               /\ pc' = "dispatch"
               /\ UNCHANGED <<insts, modRefs, manager, m_initialized, lastCall, pluginDir,
                              testCase, plugins_, dataVars, resolveVars, restVars, subPc,
                              subResult, subTemp, writing, reads, stepIdx, result, calls>>

\* what calling through the pointer does.  Through a pointer to a destroyed
\* object the behaviour is undefined: the call can fault, can run the old
\* code on the old memory as if nothing had happened, or can read a
\* vocabulary that is not the plugin's.  Every path behind the lookup logs
\* (lines 272, 283, 294, 306), and on a destroyed engine that can fault or
\* throw too: the catch clause of executeTestStep (lines 311-317) makes the
\* exception the step's result ("stepcaught"), and when its own log throws
\* the exception goes to the catch clause of executeTestCase ("caught") or,
\* when that one's log throws as well, to AutomationCore ("thrown").
UseOutcomes(ptr) ==
    (IF Dangling(ptr) THEN {"crash", "stale", "garbage"}
     ELSE IF EngineGone THEN {"crash", "sound"}
     ELSE {"sound"})
    \cup (IF EngineGone THEN {"stepcaught", "caught", "thrown"} ELSE {})

\* ReportGenerator.h lines 267-339 and the loop's handling of the result
\* (lines 181-194)
UseHeldPlugin ==
    /\ pc = "dispatch"
    /\ \E how \in UseOutcomes(heldPlugin), what \in StaleThrows :
          LET step == StepAt(testCase.steps, stepIdx)
              made == executeTestStepOn(heldPlugin, step)
              r    == IF how = "garbage"
                      THEN [escaped |-> "none", what |-> "",
                            res |-> [step_id |-> step.id,
                                     result |-> UnsupportedActionResult(step)],
                            calls |-> <<>>]
                      ELSE IF how = "stepcaught"
                      THEN [made EXCEPT !.res.result = CatchInStep("std", what)]
                      ELSE made
          IN  IF how = "crash"
              THEN RunLeaves("fault", <<>>)
              ELSE IF how \in {"thrown", "caught"}
              THEN RunLeaves(how, made.calls)
              ELSE /\ calls' = calls \o r.calls
                   /\ result' = [result EXCEPT !.step_results = Append(@, r.res)]
                   /\ stepIdx' = stepIdx + 1
                   /\ pc' = IF StopsRun(r.res, step)
                            THEN AfterLoop(TRUE)
                            ELSE IF stepIdx + 1 > Len(testCase.steps)
                                 THEN AfterLoop(FALSE)
                                 ELSE "steps"
                   /\ UNCHANGED <<insts, modRefs, manager, m_initialized, lastCall,
                                  pluginDir, testCase, plugins_, dataVars, resolveVars,
                                  restVars, subPc, subResult, subTemp, writing, reads>>
    /\ heldPlugin' = NullPlugin

NextThreads ==
    \/ RunSetupOfEngine \/ GetPluginOfStep \/ UseHeldPlugin \/ RunTeardownOfEngine
    \/ ComputeOverallOfEngine \/ Finish
    \/ LoadPlugin \/ UnloadPlugin \/ UnloadAllPlugins \/ CoreUninitialize

\* steps of the running case: one that succeeds and one that fails
ThreadSteps ==
    { MkStep(0, "mock", a, <<>>, <<>>, FALSE, TRUE) : a \in {"click", "fail"} }

\* the scripts of the running case: none, and a teardown script
ThreadScripts == {<<"", "">>, <<"", "close app">>}

\* a core with the mock plugin loaded starts a case while another thread
\* holds the core, the PluginManager and the module file
InitThreads ==
    /\ testCase \in CasesOver(ThreadSteps, MaxSteps, ThreadScripts)
    /\ plugins_ = [n \in {"mock"} |-> MkHandle("mock.dll", 1)]
    /\ insts = <<[NewInstance("mock.dll") EXCEPT !.initCalls = 1]>>
    /\ modRefs = [d \in AllModules |-> IF d = "mock.dll" THEN 1 ELSE 0]
    /\ manager = "alive"
    /\ m_initialized = TRUE
    /\ lastCall = NoCall
    /\ pluginDir = {"mock.dll"}
    /\ dataSets_ = StoreSets
    /\ dataSetNameMap_ = StoreNameMap
    /\ nextDataSetId_ = 2
    /\ nextDataItemId_ = 2
    /\ NoResolution
    /\ NoThreads
    /\ NoRest
    /\ pc = "setup"
    /\ stepIdx = 1
    /\ result = DefaultExecutionResult
    /\ calls = <<>>

SpecThreads == InitThreads /\ [][NextThreads]_vars

---------------------------------------------------------------------------
(* A substitution in one thread, updateDataItem in another.  The
   TestDataManager has no lock: the assignment 'item = dataItem' of
   updateDataItem (line 187) can be under way while getDataItemByName
   (lines 260-264) walks the same items and copies one. *)

\* the values updateDataItem writes
WriteValues == { Str1("5"), <<"8", "8">> }

\* the terminator a std::string keeps behind its last character
Nul == "\\0"

\* the byte at position i of the buffer of a std::string that holds v
ByteAt(v, i) == IF i <= Len(v) THEN v[i] ELSE Nul

\* the texts of length n whose every byte is that of old or that of new
RECURSIVE TornBytes(_, _, _)
TornBytes(old, new, n) ==
    IF n = 0 THEN {<<>>}
    ELSE {Append(t, b) : t \in TornBytes(old, new, n - 1),
                         b \in {ByteAt(old, n), ByteAt(new, n)}}

\* what a copy of a std::string can hold while another thread assigns new
\* over old in place: the copy takes the length before or after the
\* assignment has set it, and each byte before or after the assignment has
\* written it, so that it can hold the terminator as a character
RaceValues(old, new) ==
    TornBytes(old, new, Len(old)) \cup TornBytes(old, new, Len(new))

---------------------------------------------------------------------------
(* AutomationCore::executeTestCasesParallel *)

\* the largest list of cases handed to one call
MaxParallelCases == 2

\* std::thread::hardware_concurrency() may return 0 when it cannot tell
HardwareConcurrency == {0, 4}

\* lines 297-301: a core that is not initialized returns {}; lines 303-307:
\* so does an empty list; lines 310-315: a threadCount of 0 becomes the
\* hardware's, or 2; the call of the engine (lines 319-343) is commented
\* out, and line 344 returns {} for every other call too.  Hardware is what
\* hardware_concurrency() returns.
executeTestCasesParallel(initialized, engine, testCases, threadCount, hardware) ==
    IF ~initialized \/ engine = "null"
    THEN [ret |-> <<>>, threadCount |-> threadCount]
    ELSE IF testCases = <<>>
    THEN [ret |-> <<>>, threadCount |-> threadCount]
    ELSE [ret |-> <<>>,
          threadCount |-> IF threadCount # 0 THEN threadCount
                          ELSE IF hardware # 0 THEN hardware ELSE 2]

\* the cases of the parallel runs: one step each, passing, failing, raising
\* or without a plugin
ParallelPool ==
    { [steps |-> << MkStep(1, pa[1], pa[2], <<>>, <<>>, FALSE, TRUE) >>,
       setup_script |-> "", teardown_script |-> ""] :
        pa \in { <<"mock", "click">>, <<"mock", "fail">>, <<"mock", "throw">>,
                 <<"ghost", "click">> } }

ParallelLists ==
    UNION { [1..n -> ParallelPool] : n \in 0..MaxParallelCases }

CoreExecuteTestCasesParallel ==
    /\ \E testCases \in ParallelLists, threadCount \in {0, 1, 2},
          hardware \in HardwareConcurrency :
          LET r == executeTestCasesParallel(m_initialized, m_testEngine, testCases,
                                            threadCount, hardware)
          IN  lastParallel' = [op |-> "executeTestCasesParallel", cases |-> testCases,
                               threadCount |-> r.threadCount, ret |-> r.ret]
    /\ UNCHANGED <<regVars, runVars, plugins_, dataVars, resolveVars, threadVars,
                   m_testEngine, m_dataManager, lastCore, exceptCore>>

NextParallel == CoreExecuteTestCasesParallel

\* a core that was initialized or was not; no case is running
InitParallel ==
    /\ InitCore
    /\ testCase = [steps |-> <<>>, setup_script |-> "", teardown_script |-> ""]

SpecParallel == InitParallel /\ [][NextParallel]_vars

---------------------------------------------------------------------------
(* The two substitution loops, one loop turn per step *)

\* TestDataManager.cpp lines 301-306 and part_001 lines 410-412: the locals
\* of the call before its loop
StartScan ==
    /\ scan.pc = "idle"
    /\ \E op \in {"substituteDataReferences", "resolveDataReferences"} :
          scan' = [NoScan EXCEPT !.op = op, !.pc = "scan", !.result = inputText,
                                 !.temp = IF op = "substituteDataReferences"
                                          THEN inputText ELSE <<>>,
                                 !.pos = 1]
    /\ UNCHANGED <<regVars, runVars, plugins_, dataVars, resolveVars, threadVars, exceptScan>>

\* TestDataManager.cpp lines 307-318 and 325-333: the test of the outer
\* while and the turn up to the inner loop.  A match whose dataset and item
\* exist enters the inner loop at pos = 0 (here 1); any other match is
\* dropped and temp becomes its suffix.  The suffix is kept in temp from
\* here on: the inner loop reads result only.
SubstituteSearch ==
    /\ scan.op = "substituteDataReferences"
    /\ scan.pc = "scan"
    /\ \E m \in {regex_search(scan.temp)} :
       LET has  == NameMapHas(dataSetNameMap_, m.dataSetName)
           item == getDataItemByName(dataSets_, dataSetNameMap_[m.dataSetName], m.itemName)
       IN  scan' = IF ~m.found THEN [scan EXCEPT !.pc = "done"]
                   ELSE IF has /\ item.thrown.type = "none"
                   THEN [scan EXCEPT !.pc = "replace", !.pos = 1,
                                     !.fullMatch = FullMatch(scan.temp, m),
                                     !.value = item.value,
                                     !.temp = Suffix(scan.temp, m)]
                   ELSE [scan EXCEPT !.temp = Suffix(scan.temp, m)]
    /\ UNCHANGED <<regVars, runVars, plugins_, dataVars, resolveVars, threadVars, exceptScan>>

\* TestDataManager.cpp lines 321-324: the test of the inner while and one
\* replacement
SubstituteReplace ==
    /\ scan.op = "substituteDataReferences"
    /\ scan.pc = "replace"
    /\ \E p \in {Find(scan.result, scan.fullMatch, scan.pos)} :
           scan' = IF p = 0 THEN [scan EXCEPT !.pc = "scan"]
                   ELSE [scan EXCEPT
                            !.result = Replace(scan.result, p, Len(scan.fullMatch), scan.value),
                            !.pos = p + Len(scan.value)]
    /\ UNCHANGED <<regVars, runVars, plugins_, dataVars, resolveVars, threadVars, exceptScan>>

\* part_001 lines 414-463: the test of the while and one turn.  The turn
\* ends the call when no "${" or no "}" is left (line 414, lines 417-418)
\* and when getDataItemByName throws (line 439); it moves pos behind the
\* inserted value (lines 443-444) or behind the "}" of a token it leaves
\* (lines 455 and 461).
ResolveScan ==
    /\ scan.op = "resolveDataReferences"
    /\ scan.pc = "scan"
    /\ \E p \in {Find(scan.result, <<"$", "{">>, scan.pos)} :
       \E endPos \in {IF p = 0 THEN 0 ELSE Find(scan.result, <<"}">>, p)} :
       LET ref         == SubText(scan.result, p + 2, endPos - 1)
           dotPos      == Find(ref, <<".">>, 1)
           datasetName == SubText(ref, 1, dotPos - 1)
           itemName    == SubText(ref, dotPos + 1, Len(ref))
           ids         == {id \in DOMAIN dataSets_ : dataSets_[id].name = datasetName}
           item        == getDataItemByName(dataSets_, Least(ids), itemName)
       IN  scan' = IF p = 0 \/ endPos = 0 THEN [scan EXCEPT !.pc = "done"]
                   ELSE IF dotPos = 0 \/ ids = {} THEN [scan EXCEPT !.pos = endPos + 1]
                   ELSE IF item.thrown.type # "none"
                   THEN [scan EXCEPT !.pc = "done", !.thrown = item.thrown]
                   ELSE [scan EXCEPT
                            !.result = Replace(scan.result, p, endPos - p + 1, item.value),
                            !.pos = p + Len(item.value)]
    /\ UNCHANGED <<regVars, runVars, plugins_, dataVars, resolveVars, threadVars, exceptScan>>

NextScan == StartScan \/ SubstituteSearch \/ SubstituteReplace \/ ResolveScan

\* the stores of the resolution calls, and one whose value is its own token
ScanStores ==
    ResolveStores
    \cup { MkStore((1 :> MkDataSet(Str1("A"), <<MkItem(Str1("x"), TokAx),
                                                MkItem(Str1("y"), Str1("7"))>>)),
                   (Str1("A") :> 1), 2, 3) }

\* a TestDataManager holding one of the stores, behind an initialized core,
\* and a text; no call has begun
InitScan ==
    /\ plugins_ = EmptyRegistry
    /\ insts = <<>>
    /\ modRefs = [d \in AllModules |-> 0]
    /\ manager = "alive"
    /\ m_initialized = TRUE
    /\ lastCall = NoCall
    /\ pluginDir = {}
    /\ testCase = [steps |-> <<>>, setup_script |-> "", teardown_script |-> ""]
    /\ \E st \in ScanStores :
          /\ dataSets_ = st.sets
          /\ dataSetNameMap_ = st.nameMap
          /\ nextDataSetId_ = st.nextSet
          /\ nextDataItemId_ = st.nextItem
    /\ inputText \in ResolveTexts
    /\ prevResolve = NoResolve
    /\ lastResolve = NoResolve
    /\ NoThreads
    /\ NoRest
    /\ pc = "done"
    /\ stepIdx = 1
    /\ result = DefaultExecutionResult
    /\ calls = <<>>

\* the call runs on one thread that nothing suspends: whenever a turn of
\* its loop can be taken, one is
SpecScan == InitScan /\ [][NextScan]_vars /\ WF_vars(NextScan)

---------------------------------------------------------------------------
(* Win32Plugin *)

\* Win32Plugin.cpp lines 17-25
Win32SupportedActions == <<"Win32_Click", "Win32_SetText", "Win32_GetWindowTitle">>

\* the text t as one string
RECURSIVE Flat(_)
Flat(t) == IF t = <<>> THEN "" ELSE Head(t) \o Flat(Tail(t))

\* std::to_string of a number that is not negative
RECURSIVE Decimal(_)
Decimal(n) ==
    LET d == <<"0", "1", "2", "3", "4", "5", "6", "7", "8", "9">>[(n % 10) + 1]
    IN  IF n < 10 THEN d ELSE Decimal(n \div 10) \o d

\* the vertical tab (0x0B), which no escape of a string denotes
VerticalTab == ""

\* the characters std::isspace takes for white space in the "C" locale
Whitespace == {" ", "\t", "\n", VerticalTab, "\f", "\r"}

\* the value of a character as a digit, -1 for a character that is none
DigitValue(c) ==
    CASE c = "0" -> 0 [] c = "1" -> 1 [] c = "2" -> 2 [] c = "3" -> 3 [] c = "4" -> 4
      [] c = "5" -> 5 [] c = "6" -> 6 [] c = "7" -> 7 [] c = "8" -> 8 [] c = "9" -> 9
      [] c \in {"a", "A"} -> 10 [] c \in {"b", "B"} -> 11 [] c \in {"c", "C"} -> 12
      [] c \in {"d", "D"} -> 13 [] c \in {"e", "E"} -> 14 [] c \in {"f", "F"} -> 15
      [] OTHER -> -1

IsDigit(c, base) == DigitValue(c) >= 0 /\ DigitValue(c) < base

\* the first position from i on that holds no white space
RECURSIVE SkipSpace(_, _)
SkipSpace(t, i) == IF i <= Len(t) /\ t[i] \in Whitespace THEN SkipSpace(t, i + 1) ELSE i

\* the digits of t from position i on
RECURSIVE DigitsFrom(_, _, _)
DigitsFrom(t, i, base) ==
    IF i <= Len(t) /\ IsDigit(t[i], base)
    THEN <<DigitValue(t[i])>> \o DigitsFrom(t, i + 1, base)
    ELSE <<>>

\* digits without their leading zeros
RECURSIVE Significant(_)
Significant(ds) == IF ds # <<>> /\ Head(ds) = 0 THEN Significant(Tail(ds)) ELSE ds

\* the sign at position i of t, "" when there is none
SignAt(t, i) == IF i <= Len(t) /\ t[i] \in {"+", "-"} THEN t[i] ELSE ""

\* the position behind the sign at position i
AfterSign(t, i) == IF SignAt(t, i) = "" THEN i ELSE i + 1

\* the position behind the prefix 0x at position j, which base 16 takes
\* when a digit follows it
AfterPrefix(t, base, j) ==
    IF /\ base = 16
       /\ j + 2 <= Len(t)
       /\ t[j] = "0"
       /\ t[j + 1] \in {"x", "X"}
       /\ IsDigit(t[j + 2], 16)
    THEN j + 2 ELSE j

\* the number whose sign is sign and whose digits are ds
Scanned(sign, ds) ==
    [converted |-> ds # <<>>, negative |-> sign = "-", digits |-> Significant(ds)]

\* the number that starts at position i of t, behind the white space
ScanFrom(t, base, i) ==
    Scanned(SignAt(t, i), DigitsFrom(t, AfterPrefix(t, base, AfterSign(t, i)), base))

\* strtoull / strtol as std::stoull and std::stoi call them: white space, a
\* sign, with base 16 a prefix 0x that a digit follows, then the digits;
\* what follows the digits is ignored.  The number is kept as its digits,
\* most significant first.
ScanNumber(t, base) == ScanFrom(t, base, SkipSpace(t, 1))

\* the number with the digits ds is greater than the one with the digits limit
Exceeds(ds, limit) ==
    \/ Len(ds) > Len(limit)
    \/ /\ Len(ds) = Len(limit)
       /\ \E k \in 1..Len(ds) : ds[k] > limit[k] /\ \A l \in 1..(k - 1) : ds[l] = limit[l]

\* ULLONG_MAX in base 16, INT_MAX and -INT_MIN in base 10
UllongMax == [k \in 1..16 |-> 15]
IntMax == <<2, 1, 4, 7, 4, 8, 3, 6, 4, 7>>
IntMinMagnitude == <<2, 1, 4, 7, 4, 8, 3, 6, 4, 8>>

\* std::stoull(t, nullptr, 16): the exception it throws ("none" when it
\* returns) and whether the number is 0
stoull(t) ==
    LET n == ScanNumber(t, 16)
    IN  [throws |-> IF ~n.converted THEN "invalid_argument"
                    ELSE IF Exceeds(n.digits, UllongMax) THEN "out_of_range"
                    ELSE "none",
         what |-> "stoull", zero |-> n.digits = <<>>]

\* std::stoi(t)
stoi(t) ==
    LET n == ScanNumber(t, 10)
    IN  [throws |-> IF ~n.converted THEN "invalid_argument"
                    ELSE IF Exceeds(n.digits, IF n.negative THEN IntMinMagnitude ELSE IntMax)
                    THEN "out_of_range"
                    ELSE "none",
         what |-> "stoi", zero |-> n.digits = <<>>]

\* lines 175-185, 242-251 and 317-322: the first required parameter that is
\* absent or empty ("" when none is); params is the map of the StepParam
FirstMissing(required, params) ==
    LET missing == {k \in 1..Len(required) :
                       required[k] \notin DOMAIN params \/ params[required[k]] = <<>>}
    IN  IF missing = {} THEN "" ELSE required[Least(missing)]

\* a StepResult of the plugin, with the fields the handlers and executeStep set
Win32Result(success, message, err_info, extra_data, action) ==
    [success |-> success, message |-> message, error_code |-> 0, err_info |-> err_info,
     extra_data |-> extra_data, action |-> action]

\* a handler returns a result that says why it failed
Win32Failed(message, err_info) ==
    [throws |-> "none", what |-> "", result |-> Win32Result(FALSE, message, err_info, "", "")]

\* a handler returns a result of success
Win32Done(message, extra_data) ==
    [throws |-> "none", what |-> "", result |-> Win32Result(TRUE, message, "", extra_data, "")]

\* an exception leaves the handler: the try blocks catch
\* std::invalid_argument only (lines 197, 262 and 330), so the
\* std::out_of_range of stoull and stoi passes them
Win32Thrown(what) ==
    [throws |-> "std", what |-> what, result |-> Win32Result(FALSE, "", "", "", "")]

\* lines 187-202 and 254-267: the conversion of WindowHandle and, behind it,
\* of ControlId; the first exception, and the window handle being null
Win32Convert(params, withControl) ==
    LET h == stoull(params["WindowHandle"])
        c == stoi(params["ControlId"])
    IN  IF h.throws # "none" \/ ~withControl THEN h
        ELSE [c EXCEPT !.zero = h.zero]

\* lines 370-374: IsWindowValid(hwnd)
IsWindowValid(hwndNull, desktop) == ~hwndNull /\ desktop.windowValid

\* lines 170-234.  desktop is what the Win32 calls find: windowValid
\* (IsWindow and IsWindowVisible), controlFound (GetDlgItem), clickResult
\* (SendMessage), className (GetClassName), setResult (SetWindowText),
\* title (GetWindowText) and lastError (GetLastError).
SimulateButtonClick(params, desktop) ==
    LET missing == FirstMissing(<<"WindowHandle", "ControlId">>, params)
    IN
    IF missing # ""
    THEN Win32Failed("Missing required parameter", "Parameter: " \o missing)
    ELSE
    LET cv == Win32Convert(params, TRUE)
    IN
    IF cv.throws = "invalid_argument"
    THEN Win32Failed("Invalid parameter format", "Error: " \o cv.what)
    ELSE IF cv.throws = "out_of_range" THEN Win32Thrown(cv.what)
    ELSE IF ~IsWindowValid(cv.zero, desktop)
    THEN Win32Failed("Invalid window handle",
                     "WindowHandle: " \o Flat(params["WindowHandle"]))
    ELSE IF ~desktop.controlFound
    THEN Win32Failed("Control not found",
                     "ControlId: " \o Flat(params["ControlId"])
                     \o ", WindowHandle: " \o Flat(params["WindowHandle"]))
    ELSE IF desktop.clickResult = 0
    THEN Win32Failed("Click operation failed",
                     "SendMessage(BM_CLICK) returned 0, ErrorCode: "
                     \o Decimal(desktop.lastError))
    ELSE Win32Done("Button click success", Flat(params["ControlId"]))

\* lines 236-309
SetTextBoxContent(params, desktop) ==
    LET missing == FirstMissing(<<"WindowHandle", "ControlId", "Text">>, params)
    IN
    IF missing # ""
    THEN Win32Failed("Missing required parameter", "Parameter: " \o missing)
    ELSE
    LET cv == Win32Convert(params, TRUE)
    IN
    IF cv.throws = "invalid_argument"
    THEN Win32Failed("Invalid parameter format", "Error: " \o cv.what)
    ELSE IF cv.throws = "out_of_range" THEN Win32Thrown(cv.what)
    ELSE IF ~IsWindowValid(cv.zero, desktop)
    THEN Win32Failed("Invalid window handle",
                     "WindowHandle: " \o Flat(params["WindowHandle"]))
    ELSE IF ~desktop.controlFound
    THEN Win32Failed("Control not found", "ControlId: " \o Flat(params["ControlId"]))
    ELSE IF desktop.className # "EDIT"
    THEN Win32Failed("Control is not a text box",
                     "Control class name: " \o desktop.className)
    ELSE IF ~desktop.setResult
    THEN Win32Failed("Set text failed", "ErrorCode: " \o Decimal(desktop.lastError))
    ELSE Win32Done("Set text success", Flat(params["Text"]))

\* lines 311-368
GetWindowTitle(params, desktop) ==
    IF FirstMissing(<<"WindowHandle">>, params) # ""
    THEN Win32Failed("Missing required parameter", "Parameter: WindowHandle")
    ELSE
    LET cv == Win32Convert(params, FALSE)
    IN
    IF cv.throws = "invalid_argument"
    THEN Win32Failed("Invalid WindowHandle format", "Error: " \o cv.what)
    ELSE IF cv.throws = "out_of_range" THEN Win32Thrown(cv.what)
    ELSE IF ~IsWindowValid(cv.zero, desktop)
    THEN Win32Failed("Invalid window handle",
                     "WindowHandle: " \o Flat(params["WindowHandle"]))
    ELSE IF desktop.title = "" /\ desktop.lastError # 0
    THEN Win32Failed("Get window title failed", "ErrorCode: " \o Decimal(desktop.lastError))
    ELSE Win32Done("Get window title success", desktop.title)

\* lines 121 and 136-147: the field of the StepParam that executeStep looks
\* up among the supported operations and dispatches on
Win32Operation(param) == param.target

\* lines 102-167: executeStep, with the handler it called ("" when none).
\* The result of a handler replaces the one executeStep began with, and
\* with it the action copied at line 107; the execution time is not kept.
Win32ExecuteStep(isInitialized, param, desktop) ==
    LET operation == Win32Operation(param)
        With(handler, h) ==
            [handler |-> handler, throws |-> h.throws, what |-> h.what, result |-> h.result]
    IN
    IF ~isInitialized
    THEN [handler |-> "", throws |-> "none", what |-> "",
          result |-> Win32Result(FALSE, "Plugin not initialized",
                                 "Call Initialize() before executing steps", "",
                                 param.action)]
    ELSE IF ~SeqContains(Win32SupportedActions, operation)
    THEN [handler |-> "", throws |-> "none", what |-> "",
          result |-> Win32Result(FALSE, "Unsupported operation",
                                 "Operation: " \o operation
                                 \o ", supported: Win32_Click, Win32_SetText, "
                                 \o "Win32_GetWindowTitle", "", param.action)]
    ELSE IF operation = "Win32_Click"
    THEN With("SimulateButtonClick", SimulateButtonClick(param.params, desktop))
    ELSE IF operation = "Win32_SetText"
    THEN With("SetTextBoxContent", SetTextBoxContent(param.params, desktop))
    ELSE With("GetWindowTitle", GetWindowTitle(param.params, desktop))

\* lines 28-84: initialize() returns true and leaves the flag set
Win32Initialize ==
    /\ m_isInitialized' = TRUE
    /\ lastDispatch' = [NoDispatch EXCEPT !.op = "initialize"]
    /\ UNCHANGED <<regVars, runVars, plugins_, dataVars, resolveVars, threadVars, exceptWin32>>

\* lines 86-99: uninitialize() clears the flag
Win32Uninitialize ==
    /\ m_isInitialized' = FALSE
    /\ lastDispatch' = [NoDispatch EXCEPT !.op = "uninitialize"]
    /\ UNCHANGED <<regVars, runVars, plugins_, dataVars, resolveVars, threadVars, exceptWin32>>

\* the values of the parameters: a handle, a null handle, one that is no
\* number and one ULLONG_MAX cannot hold; an id and one an int cannot hold
Win32Handles ==
    { <<"0", "x", "1", "0">>, <<VerticalTab, "0", "x", "1", "0">>, Str1("0"), <<"z", "z">>,
      [k \in 1..17 |-> "F"] }
Win32ControlIds ==
    { Str1("5"), <<VerticalTab, "5">>, <<"9", "9", "9", "9", "9", "9", "9", "9", "9", "9", "9">> }

\* a map of params with the three keys
Win32ParamMap(h, c, t) ==
    [k \in {"WindowHandle", "ControlId", "Text"} |->
        CASE k = "WindowHandle" -> h [] k = "ControlId" -> c [] OTHER -> t]

\* the three keys with sound values
SoundParams == Win32ParamMap(<<"0", "x", "1", "0">>, Str1("5"), <<"h", "i">>)

\* the maps of params: keys absent, and the three keys with one value that
\* is sound, empty, or not what its conversion takes
Win32ParamMaps ==
    { [k \in ks |-> SoundParams[k]] :
        ks \in { {}, {"WindowHandle"}, {"WindowHandle", "ControlId"} } }
    \cup { [SoundParams EXCEPT !["WindowHandle"] = h] : h \in Win32Handles }
    \cup { [SoundParams EXCEPT !["ControlId"] = c] : c \in Win32ControlIds \cup {<<>>} }

\* the StepParams of the steps handed to the plugin: an action inside or
\* outside the vocabulary, a target that names a control, is empty or is
\* itself an operation name, and the map of params
Win32ParamsOver(maps) ==
    { [action |-> a, target |-> t, value |-> "", params |-> ps] :
        a \in {"Win32_Click", "Win32_SetText", "Win32_GetWindowTitle", "click"},
        t \in {"", "btnOK", "Win32_Click", "Win32_SetText", "Win32_GetWindowTitle"},
        ps \in maps }

\* a desktop on which every Win32 call succeeds
SoundDesktop ==
    [windowValid |-> TRUE, controlFound |-> TRUE, clickResult |-> 1, className |-> "EDIT",
     setResult |-> TRUE, title |-> "Main", lastError |-> 0]

\* what the Win32 calls of a handler may find
Win32Desktops ==
    { SoundDesktop,
      [SoundDesktop EXCEPT !.windowValid = FALSE],
      [SoundDesktop EXCEPT !.controlFound = FALSE],
      [SoundDesktop EXCEPT !.clickResult = 0, !.className = "BUTTON", !.lastError = 5],
      [SoundDesktop EXCEPT !.setResult = FALSE, !.title = "", !.lastError = 1400],
      [SoundDesktop EXCEPT !.title = ""] }

\* the steps dispatched, each with the desktop it meets: every map of
\* params on the sound desktop, and the sound map on every desktop
Win32Dispatches ==
    (Win32ParamsOver(Win32ParamMaps) \X {SoundDesktop})
    \cup (Win32ParamsOver({SoundParams}) \X Win32Desktops)

\* TestEngine::executeTestStep from line 276 on, with getPlugin having
\* returned the Win32 plugin: the vocabulary check on step.param.action
\* (lines 277-284), then plugin->executeStep(step.param) (line 288), whose
\* exception the catch clause of lines 311-317 turns into a result
DispatchWin32Step ==
    /\ \E dispatch \in Win32Dispatches :
          LET param == dispatch[1]
              desktop == dispatch[2]
              step == [id |-> 1, plugin_name |-> "Win32AutomationPlugin", param |-> param]
              ex   == Win32ExecuteStep(m_isInitialized, param, desktop)
          IN  lastDispatch' =
                 IF ~ActionSupported(Win32SupportedActions, param.action)
                 THEN [op |-> "executeTestStep", param |-> param, passed |-> FALSE,
                       handler |-> "", thrown |-> "none",
                       result |-> UnsupportedActionResult(step)]
                 ELSE [op |-> "executeTestStep", param |-> param, passed |-> TRUE,
                       handler |-> ex.handler, thrown |-> ex.throws,
                       result |-> IF ex.throws = "none" THEN ex.result
                                  ELSE CatchInStep(ex.throws, ex.what)]
    /\ UNCHANGED <<regVars, runVars, plugins_, dataVars, resolveVars, threadVars, exceptWin32,
                   m_isInitialized>>

NextWin32 == Win32Initialize \/ Win32Uninitialize \/ DispatchWin32Step

\* a Win32Plugin just constructed; no other component is in use
InitWin32 ==
    /\ InitRegistryOver({})
    /\ m_isInitialized = FALSE

SpecWin32 == InitWin32 /\ [][NextWin32]_vars

---------------------------------------------------------------------------
(* AutomationCore: initialize, uninitialize, destruction and queries *)

\* PluginManager.cpp lines 97-109: loadPlugin for every module file of the
\* directory, in the order ord in which the directory iterator yields
\* them, counting the loads that succeed
RECURSIVE LoadFrom(_, _, _, _, _, _)
LoadFrom(registry, objects, ord, k, done, loadedCount) ==
    IF k > Len(ord)
    THEN [registry |-> registry, objects |-> objects, events |-> done,
          loadedCount |-> loadedCount]
    ELSE LET r == loadPlugin(registry, objects, ord[k])
         IN  LoadFrom(r.registry,
                      IF r.ret THEN Apply(Append(objects, NewInstance(ord[k])), r.events)
                               ELSE objects,
                      ord, k + 1, done \o r.events,
                      IF r.ret THEN loadedCount + 1 ELSE loadedCount)

\* PluginManager.cpp lines 91-110
loadPluginsFromDirectory(registry, objects, ord) ==
    LoadFrom(registry, objects, ord, 1, <<>>, 0)

\* the core object exists and the process runs
CoreAlive == lastCore.op # "~AutomationCore" /\ manager # "terminated"

\* the caller is not inside executeTestCase
Quiet == pc \in {"idle", "done"}

\* the store of a TestDataManager just constructed (part_000 lines 9-12)
FreshStore ==
    /\ dataSets_' = <<>>
    /\ dataSetNameMap_' = <<>>
    /\ nextDataSetId_' = 1
    /\ nextDataItemId_' = 1

\* the plugin manager that initialize() replaces has run its destructor:
\* where there was one, unloadAllPlugins() over its plugins, in the order ord
ReplacedManager(ord) ==
    IF manager = "alive"
    THEN unloadAllPlugins(plugins_, insts, ord)
    ELSE [outcome |-> "returned", events |-> <<>>, registry |-> EmptyRegistry]

\* part_001 lines 48-109: initialize(pluginDirectory).  An initialized core
\* returns true at once.  Otherwise the data manager is replaced by a new
\* one (line 63) and so is the plugin manager (line 72): a plugin manager
\* that an earlier call left is destroyed here, with the plugins it holds,
\* and an exception that leaves its destructor ends the process.  Then the
\* directory is loaded into the new manager (line 80) and the engine is made
\* (line 90).  An exception of the directory iterator (fails), before the
\* first file or behind the k-th, is caught: initialize returns false with
\* the two managers in place and the plugins loaded so far registered.
CoreInitialize ==
    /\ CoreAlive
    /\ Quiet
    /\ IF m_initialized
       THEN /\ lastCore' = [op |-> "initialize", arg |-> "", ret |-> "true",
                            before |-> CoreSnapshot, thrown |-> "none", what |-> ""]
            /\ UNCHANGED <<plugins_, insts, modRefs, manager, m_initialized, dataVars,
                           m_testEngine, m_dataManager>>
       ELSE /\ Len(insts) + Cardinality(pluginDir) <= MaxInstances
            /\ CanUnload
            /\ m_dataManager' = "alive"
            /\ FreshStore
            /\ \E ordOld \in Orders(IF manager = "alive" THEN DOMAIN plugins_ ELSE {}) :
                  LET old == ReplacedManager(ordOld)
                  IN  IF old.outcome # "returned"
                      THEN /\ plugins_' = old.registry
                           /\ insts' = Apply(insts, old.events)
                           /\ modRefs' = ApplyModules(modRefs, old.events)
                           /\ manager' = "terminated"
                           /\ UNCHANGED <<m_testEngine, m_initialized>>
                           /\ lastCore' = [op |-> "initialize", arg |-> "",
                                           ret |-> "terminated", before |-> CoreSnapshot,
                                           thrown |-> "none", what |-> ""]
                      ELSE \E fails \in BOOLEAN, ord \in Orders(pluginDir) :
                           \E k \in (IF fails THEN 0..Len(ord) ELSE {Len(ord)}) :
                              LET l == loadPluginsFromDirectory(
                                           EmptyRegistry, Apply(insts, old.events),
                                           SubSeq(ord, 1, k))
                              IN  /\ plugins_' = l.registry
                                  /\ insts' = l.objects
                                  /\ modRefs' = ApplyModules(modRefs, old.events \o l.events)
                                  /\ manager' = "alive"
                                  /\ m_testEngine' = IF fails THEN m_testEngine ELSE "alive"
                                  /\ m_initialized' = ~fails
                                  /\ lastCore' = [op |-> "initialize", arg |-> "",
                                                  ret |-> IF fails THEN "false" ELSE "true",
                                                  before |-> CoreSnapshot,
                                                  thrown |-> "none", what |-> ""]
    /\ UNCHANGED <<lastCall, pluginDir, resolveVars, threadVars, runVars, lastParallel,
                   exceptCore>>

\* part_001 lines 112-118: uninitialize() on a core that is not initialized
CoreUninitializeIdle ==
    /\ CoreAlive
    /\ Quiet
    /\ ~m_initialized
    /\ lastCore' = [op |-> "uninitialize", arg |-> "", ret |-> "returned",
                    before |-> CoreSnapshot, thrown |-> "none", what |-> ""]
    /\ UNCHANGED <<regVars, plugins_, dataVars, resolveVars, threadVars, runVars,
                   m_testEngine, m_dataManager, lastParallel, exceptCore>>

\* part_001 lines 39-46 and AutomationCore.h lines 182-185: ~AutomationCore().
\* An initialized core runs uninitialize(); then the members go in reverse
\* order of declaration: the engine, the data manager, the plugin manager
\* (whose destructor calls unloadAllPlugins()).  An exception that leaves a
\* destructor ends the process.
CoreDestroy ==
    /\ CoreAlive
    /\ Quiet
    /\ CanUnload
    /\ \E ord \in Orders(DOMAIN plugins_) :
          LET r == unloadAllPlugins(plugins_, insts, ord)
          IN  \E ord2 \in Orders(DOMAIN r.registry) :
                LET r2   == unloadAllPlugins(r.registry, Apply(insts, r.events), ord2)
                    both == m_initialized /\ r.outcome = "returned"
                    evs  == IF manager # "alive" THEN <<>>
                            ELSE IF both THEN r.events \o r2.events ELSE r.events
                    ok   == \/ manager # "alive"
                            \/ r.outcome = "returned" /\ (both => r2.outcome = "returned")
                IN  /\ plugins_' = IF manager # "alive" THEN plugins_
                                   ELSE IF both THEN r2.registry ELSE r.registry
                    /\ insts' = Apply(insts, evs)
                    /\ modRefs' = ApplyModules(modRefs, evs)
                    /\ manager' = IF ~ok THEN "terminated"
                                  ELSE IF manager = "alive" THEN "destroyed" ELSE manager
                    /\ m_testEngine' = "null"
                    /\ m_dataManager' = IF ok \/ ~m_initialized THEN "null" ELSE m_dataManager
                    /\ m_initialized' = IF ok THEN FALSE ELSE m_initialized
                    /\ lastCore' = [op |-> "~AutomationCore", arg |-> "",
                                    ret |-> IF ok THEN "returned" ELSE "terminated",
                                    before |-> CoreSnapshot, thrown |-> "none", what |-> ""]
    /\ UNCHANGED <<lastCall, pluginDir, dataVars, resolveVars, threadVars, runVars,
                   lastParallel, exceptCore>>

\* some entry of the registry has lost its plugin object
HoldsReleased(registry) == \E n \in DOMAIN registry : registry[n].plugin = NullPlugin

\* a query that came back with a value
Answer(value) == [outcome |-> "returned", value |-> value, throws |-> "none", what |-> ""]

\* a query that an exception left
Thrown(throws, what) == [outcome |-> "throws", value |-> <<>>, throws |-> throws, what |-> what]

\* part_001 lines 166-231: what the four queries return.  getPluginInfos
\* calls name() and version() through every pointer getPlugins() returns;
\* through a null pointer that is undefined: the call faults or comes back
\* with a map of whatever the build read.  getPluginActions calls
\* supportedActions() of the plugin outside any try block (line 214), so an
\* exception of the plugin leaves the query.
CoreQueryResults(q, name) ==
    CASE q = "getDataManager" ->
            {Answer(IF ~m_initialized THEN "null" ELSE m_dataManager)}
      [] q = "getPluginInfos" ->
            IF ~m_initialized \/ manager # "alive" THEN {Answer({})}
            ELSE IF HoldsReleased(plugins_)
            THEN {[outcome |-> "fault", value |-> {}, throws |-> "none", what |-> ""],
                  [outcome |-> "garbage", value |-> {<<"", "">>}, throws |-> "none",
                   what |-> ""]}
            ELSE {Answer({ <<PluginName(insts, plugins_[n].plugin),
                             PluginVersion(insts, plugins_[n].plugin)>> :
                             n \in DOMAIN plugins_ })}
      [] q = "getPluginActions" ->
            IF ~m_initialized \/ manager # "alive" THEN {Answer(<<>>)}
            ELSE IF getPlugin(plugins_, name) = NullPlugin THEN {Answer(<<>>)}
            ELSE IF PluginSupportedActions(name).throws # "none"
            THEN {Thrown(PluginSupportedActions(name).throws, PluginSupportedActions(name).what)}
            ELSE {Answer(PluginSupportedActions(name).actions)}
      [] OTHER ->
            IF ~m_initialized \/ manager # "alive" THEN {Answer(FALSE)}
            ELSE {Answer(getPlugin(plugins_, name) # NullPlugin)}

CoreQueries == {"getDataManager", "getPluginInfos", "getPluginActions", "isPluginAvailable"}

\* one of the four queries
CoreQuery ==
    /\ CoreAlive
    /\ Quiet
    /\ \E q \in CoreQueries, name \in AskedNames :
          \E answer \in CoreQueryResults(q, name) :
             /\ lastCore' = [op |-> q, arg |-> name, ret |-> answer.value,
                             before |-> CoreSnapshot, thrown |-> answer.throws,
                             what |-> answer.what]
             /\ manager' = IF answer.outcome = "fault" THEN "terminated" ELSE manager
    /\ UNCHANGED <<insts, modRefs, m_initialized, lastCall, pluginDir, plugins_, dataVars,
                   resolveVars, threadVars, runVars, m_testEngine, m_dataManager,
                   lastParallel, exceptCore>>

\* the caller enters AutomationCore::executeTestCase(testCase)
CoreCallExecuteTestCase ==
    /\ CoreAlive
    /\ Quiet
    /\ pc' = "call"
    /\ stepIdx' = 1
    /\ result' = DefaultExecutionResult
    /\ calls' = <<>>
    /\ lastCore' = [op |-> "executeTestCase", arg |-> "", ret |-> "",
                    before |-> CoreSnapshot, thrown |-> "none", what |-> ""]
    /\ UNCHANGED <<regVars, plugins_, testCase, dataVars, resolveVars, threadVars,
                   m_testEngine, m_dataManager, lastParallel, exceptCore>>

NextLifecycle ==
    \/ CoreInitialize
    \/ Quiet /\ CoreUninitialize
    \/ CoreUninitializeIdle
    \/ CoreDestroy
    \/ CoreQuery
    \/ CoreCallExecuteTestCase
    \/ CoreExecuteTestCase
    \/ Next

\* the directories initialize is pointed at: empty, one sound plugin, one
\* plugin whose uninitialize() raises, both, and one plugin whose
\* supportedActions() raises
LifecycleDirs == { {}, {"a.dll"}, {"r.dll"}, {"a.dll", "r.dll"}, {"faulty.dll"} }

\* a core just constructed (part_001 lines 27-36), and the case its caller
\* will run: one step for the plugin of a.dll
InitLifecycle ==
    /\ plugins_ = EmptyRegistry
    /\ insts = <<>>
    /\ modRefs = [d \in AllModules |-> 0]
    /\ manager = "none"
    /\ m_initialized = FALSE
    /\ lastCall = NoCall
    /\ pluginDir \in LifecycleDirs
    /\ testCase = [steps |-> << MkStep(1, "A", "click", <<>>, <<>>, FALSE, TRUE) >>,
                   setup_script |-> "open app", teardown_script |-> "close app"]
    /\ dataSets_ = <<>>
    /\ dataSetNameMap_ = <<>>
    /\ nextDataSetId_ = 1
    /\ nextDataItemId_ = 1
    /\ NoResolution
    /\ NoThreads
    /\ NoRest
    /\ pc = "idle"
    /\ stepIdx = 1
    /\ result = DefaultExecutionResult
    /\ calls = <<>>

SpecLifecycle == InitLifecycle /\ [][NextLifecycle]_vars

---------------------------------------------------------------------------
(* TestDataManager: the operations that write the table and the name map *)

\* createDataSet is no longer called once it has given out this many ids
MaxDataSets == 2

\* what a writing operation leaves: what it threw, what it returned, the
\* two maps and the id counter
Written(thrown, ret, sets, nameMap, nextSet) ==
    [thrown |-> thrown, ret |-> ret, sets |-> sets, nameMap |-> nameMap, nextSet |-> nextSet]

\* lines 47 and 73: what() is "DataSet with name '<name>' already exists"
AlreadyExists(name) == TestDataException("DataSet with name '' already exists", name, "")

\* line 39: what() is "DataSet with ID <id> does not exist"
DoesNotExist(id) == TestDataException("DataSet with ID ", <<>>, "")

\* std::map::operator[](key) = v
Put(map, key, v) == [k \in DOMAIN map \cup {key} |-> IF k = key THEN v ELSE map[k]]

\* an erase that leaves the entry in the map
EraseName_Kept(nameMap, name) == nameMap

\* lines 76 and 96: dataSetNameMap_.erase(name)
EraseName(nameMap, name) == [n \in DOMAIN nameMap \ {name} |-> nameMap[n]]

\* line 97: dataSets_.erase(dataSetId)
EraseDataSet(sets, id) == [k \in DOMAIN sets \ {id} |-> sets[k]]

\* lines 44-63: createDataSet(dataSet); the id is generateDataSetId()
\* (lines 27-29), the time stamps are not kept in the model
createDataSet(sets, nameMap, nextSet, dataSet) ==
    IF NameMapHas(nameMap, dataSet.name)
    THEN Written(AlreadyExists(dataSet.name), 0, sets, nameMap, nextSet)
    ELSE Written(NoException, nextSet,
                 Put(sets, nextSet, MkDataSet(dataSet.name, dataSet.items)),
                 Put(nameMap, dataSet.name, nextSet),
                 nextSet + 1)

\* lines 66-89: updateDataSet(dataSet), dataSet.id being id
updateDataSet(sets, nameMap, nextSet, id, dataSet) ==
    IF ~checkDataSetExists(sets, id)
    THEN Written(DoesNotExist(id), FALSE, sets, nameMap, nextSet)
    ELSE LET existingDataSet == sets[id]
         IN  IF existingDataSet.name # dataSet.name /\ NameMapHas(nameMap, dataSet.name)
             THEN Written(AlreadyExists(dataSet.name), FALSE, sets, nameMap, nextSet)
             ELSE Written(NoException, TRUE,
                          Put(sets, id, MkDataSet(dataSet.name, dataSet.items)),
                          IF existingDataSet.name # dataSet.name
                          THEN Put(EraseName(nameMap, existingDataSet.name), dataSet.name, id)
                          ELSE nameMap,
                          nextSet)

\* lines 92-100: deleteDataSet(dataSetId)
deleteDataSet(sets, nameMap, nextSet, id) ==
    IF ~checkDataSetExists(sets, id)
    THEN Written(DoesNotExist(id), FALSE, sets, nameMap, nextSet)
    ELSE Written(NoException, TRUE,
                 EraseDataSet(sets, id), EraseName(nameMap, sets[id].name), nextSet)

\* what an operation on the items of a dataset leaves: what it threw, what
\* it returned, the table and the item id counter
ItemWritten(thrown, ret, sets, nextItem) ==
    [thrown |-> thrown, ret |-> ret, sets |-> sets, nextItem |-> nextItem]

\* lines 141 and 176: what() is "DataItem with name '<name>' already exists
\* in DataSet <id>"
ItemAlreadyExists(name) ==
    TestDataException("DataItem with name '' already exists in DataSet ", name, "")

\* line 202: what() is "DataItem with ID <id> not found in DataSet <id>"
ItemNotFound == TestDataException("DataItem with ID  not found in DataSet ", <<>>, "")

\* line 266: what() is "DataItem with name '<name>' not found in DataSet <id>"
ItemNameNotFound(name) == TestDataException("DataItem with name '", name, "")

\* the positions of the items that carry the name
PositionsNamed(items, name) == {k \in 1..Len(items) : items[k].name = name}

\* the positions of the items that carry the id
PositionsWithId(items, itemId) == {k \in 1..Len(items) : items[k].id = itemId}

\* lines 133-161: addDataItem(dataSetId, dataItem); the id of the new item
\* is generateDataItemId() (lines 32-34)
addDataItem(sets, nextItem, id, dataItem) ==
    IF ~checkDataSetExists(sets, id)
    THEN ItemWritten(DoesNotExist(id), 0, sets, nextItem)
    ELSE IF PositionsNamed(sets[id].items, dataItem.name) # {}
    THEN ItemWritten(ItemAlreadyExists(dataItem.name), 0, sets, nextItem)
    ELSE ItemWritten(NoException, nextItem,
                     [sets EXCEPT ![id].items = Append(@, [dataItem EXCEPT !.id = nextItem])],
                     nextItem + 1)

\* lines 173-179: the new name of the item is the name of an item with
\* another id
NameTakenByOther(items, dataItem) ==
    \E k \in 1..Len(items) : items[k].id # dataItem.id /\ items[k].name = dataItem.name

\* lines 170-199: the first item with the id of dataItem, at position k, is
\* assigned dataItem, unless its new name is taken
UpdateItemAt(sets, nextItem, id, k, dataItem) ==
    IF sets[id].items[k].name # dataItem.name /\ NameTakenByOther(sets[id].items, dataItem)
    THEN ItemWritten(ItemAlreadyExists(dataItem.name), FALSE, sets, nextItem)
    ELSE ItemWritten(NoException, TRUE, [sets EXCEPT ![id].items[k] = dataItem], nextItem)

\* lines 164-206: updateDataItem(dataSetId, dataItem)
updateDataItem(sets, nextItem, id, dataItem) ==
    IF ~checkDataSetExists(sets, id)
    THEN ItemWritten(DoesNotExist(id), FALSE, sets, nextItem)
    ELSE IF PositionsWithId(sets[id].items, dataItem.id) = {}
    THEN ItemWritten(ItemNotFound, FALSE, sets, nextItem)
    ELSE UpdateItemAt(sets, nextItem, id,
                      Least(PositionsWithId(sets[id].items, dataItem.id)), dataItem)

\* an item stays when its id is another one
KeepsItem(item, itemId) == item.id # itemId

\* lines 213-219: std::remove_if and erase take out every item with the id
RemoveIf(items, itemId) == SelectSeq(items, LAMBDA item : KeepsItem(item, itemId))

\* lines 209-228: removeDataItem(dataSetId, dataItemId)
removeDataItem(sets, nextItem, id, itemId) ==
    IF ~checkDataSetExists(sets, id)
    THEN ItemWritten(DoesNotExist(id), FALSE, sets, nextItem)
    ELSE IF PositionsWithId(sets[id].items, itemId) = {}
    THEN ItemWritten(NoException, FALSE, sets, nextItem)
    ELSE ItemWritten(NoException, TRUE,
                     [sets EXCEPT ![id].items = RemoveIf(@, itemId)], nextItem)

\* lines 231-236: removeDataItembyName(dataSetId, name), which removes by the
\* id of the first item that carries the name
removeDataItembyName(sets, nextItem, id, name) ==
    IF ~checkDataSetExists(sets, id)
    THEN ItemWritten(DoesNotExist(id), FALSE, sets, nextItem)
    ELSE IF PositionsNamed(sets[id].items, name) = {}
    THEN ItemWritten(ItemNameNotFound(name), FALSE, sets, nextItem)
    ELSE removeDataItem(sets, nextItem, id,
                        sets[id].items[Least(PositionsNamed(sets[id].items, name))].id)

\* the backspace (0x08), which no escape of a string denotes
Backspace == ""

\* a value of nlohmann::json as importDataSetFromFile meets it: its type,
\* the text of a string (for a number and a literal, what dump() prints for
\* it), the elements of an array, the members of an object
Json(kind, text, elems) == [kind |-> kind, text |-> text, elems |-> elems]

JsonNull == Json("null", <<"n", "u", "l", "l">>, <<>>)

JsonBoolean(b) ==
    Json("boolean", IF b THEN <<"t", "r", "u", "e">> ELSE <<"f", "a", "l", "s", "e">>, <<>>)

\* an integer, kept as its sign and decimal digits
JsonNumber(digits) == Json("number", digits, <<>>)

JsonString(t) == Json("string", t, <<>>)

JsonArray(elems) == Json("array", <<>>, elems)

\* the members of an object come in the order of their keys, the order in
\* which the std::map of the object keeps them
JsonMember(key, value) == [key |-> key, value |-> value]

JsonObject(members) == Json("object", <<>>, members)

\* the keys importDataSetFromFile asks for
KeyName == <<"n", "a", "m", "e">>
KeyDescription == <<"d", "e", "s", "c", "r", "i", "p", "t", "i", "o", "n">>
KeyItems == <<"i", "t", "e", "m", "s">>
KeyType == <<"t", "y", "p", "e">>
KeyValue == <<"v", "a", "l", "u", "e">>

\* the control characters 0x01 to 0x1F, each at the position of its code
ControlChars ==
    <<"", "", "", "", "", "", "", Backspace,
       "\t", "\n", VerticalTab, "\f", "\r", "", "", "",
       "", "", "", "", "", "", "", "",
       "", "", "", "", "", "", "">>

\* the digits of snprintf's %x
HexDigits == <<"0", "1", "2", "3", "4", "5", "6", "7", "8", "9", "a", "b", "c", "d", "e", "f">>

\* the code of the character c when it is a control character, 32 otherwise
ControlCode(c) ==
    IF c = Nul THEN 0
    ELSE IF \E i \in 1..Len(ControlChars) : ControlChars[i] = c
    THEN CHOOSE i \in 1..Len(ControlChars) : ControlChars[i] = c
    ELSE 32

\* "\\u%04x" of a code up to 0x1F
UnicodeEscape(code) ==
    <<"\\", "u", "0", "0", HexDigits[(code \div 16) + 1], HexDigits[(code % 16) + 1]>>

\* how dump() writes one character of a string: the quote and the backslash
\* get a backslash, the backspace, form feed, new line, carriage return and
\* tab their letter, every other character up to 0x1F its \u00xx, and any
\* other character is written as it is
EscapeChar(c) ==
    IF c = "\"" THEN <<"\\", "\"">>
    ELSE IF c = "\\" THEN <<"\\", "\\">>
    ELSE IF c = Backspace THEN <<"\\", "b">>
    ELSE IF c = "\f" THEN <<"\\", "f">>
    ELSE IF c = "\n" THEN <<"\\", "n">>
    ELSE IF c = "\r" THEN <<"\\", "r">>
    ELSE IF c = "\t" THEN <<"\\", "t">>
    ELSE IF ControlCode(c) < 32 THEN UnicodeEscape(ControlCode(c))
    ELSE <<c>>

\* the text t as dump() writes it between the quotes
RECURSIVE Escaped(_)
Escaped(t) == IF t = <<>> THEN <<>> ELSE EscapeChar(Head(t)) \o Escaped(Tail(t))

\* a string in its quotes
Quoted(t) == <<"\"">> \o Escaped(t) \o <<"\"">>

\* line 369: itemJson["value"].dump(), the compact text of a JSON value
RECURSIVE Dump(_)
RECURSIVE DumpElements(_)
RECURSIVE DumpMembers(_)
Dump(j) ==
    CASE j.kind = "string" -> Quoted(j.text)
      [] j.kind = "array"  -> <<"[">> \o DumpElements(j.elems) \o <<"]">>
      [] j.kind = "object" -> <<"{">> \o DumpMembers(j.elems) \o <<"}">>
      [] OTHER             -> j.text

DumpElements(elems) ==
    IF elems = <<>> THEN <<>>
    ELSE Dump(Head(elems)) \o (IF Len(elems) > 1 THEN <<",">> ELSE <<>>)
            \o DumpElements(Tail(elems))

DumpMembers(members) ==
    IF members = <<>> THEN <<>>
    ELSE Quoted(Head(members).key) \o <<":">> \o Dump(Head(members).value)
            \o (IF Len(members) > 1 THEN <<",">> ELSE <<>>)
            \o DumpMembers(Tail(members))

\* j.contains(key): j is an object that has a member with the key
contains(j, key) ==
    j.kind = "object" /\ \E k \in 1..Len(j.elems) : j.elems[k].key = key

\* j[key] of an object that has the key
MemberOf(j, key) == j.elems[CHOOSE k \in 1..Len(j.elems) : j.elems[k].key = key].value

is_string(j) == j.kind = "string"

is_array(j) == j.kind = "array"

\* get<std::string>() of a value that is no string throws type_error 302,
\* whose what() names the type of the value
TypeError(j) ==
    [type |-> "type_error",
     prefix |-> "[json.exception.type_error.302] type must be string, but is " \o j.kind,
     about |-> <<>>, cause |-> ""]

\* lines 356 and 370: j.contains("description") ? j["description"].get<std::string>() : ""
\* throws
DescriptionThrows(j) == contains(j, KeyDescription) /\ ~is_string(MemberOf(j, KeyDescription))

\* lines 362-364: the item has a string name, a string type and a value
Complete(itemJson) ==
    /\ contains(itemJson, KeyName) /\ is_string(MemberOf(itemJson, KeyName))
    /\ contains(itemJson, KeyType) /\ is_string(MemberOf(itemJson, KeyType))
    /\ contains(itemJson, KeyValue)

\* what the loop over the items leaves: the exception that ended it, the
\* items pushed
Imported(thrown, items) == [thrown |-> thrown, items |-> items]

\* the item put before the items that follow it, unless the loop threw
\* behind it
PushedBefore(item, rest) ==
    IF rest.thrown.type # "none" THEN rest ELSE Imported(NoException, <<item>> \o rest.items)

\* lines 360-375: the items of the array that are complete, in order.  The
\* id of an item is never assigned (TestDataItem item, line 366): each turn
\* of the loop has an item of its own, whose id holds whatever int the
\* memory held, uninit[1] for the first element of the array
RECURSIVE ImportedItems(_, _)
ImportedItems(itemsJson, uninit) ==
    IF itemsJson = <<>> THEN Imported(NoException, <<>>)
    ELSE IF ~Complete(Head(itemsJson)) THEN ImportedItems(Tail(itemsJson), Tail(uninit))
    ELSE IF DescriptionThrows(Head(itemsJson))
    THEN Imported(TypeError(MemberOf(Head(itemsJson), KeyDescription)), <<>>)
    ELSE PushedBefore(TestDataItem(Head(uninit), MemberOf(Head(itemsJson), KeyName).text,
                                   Dump(MemberOf(Head(itemsJson), KeyValue))),
                      ImportedItems(Tail(itemsJson), Tail(uninit)))

\* line 360: the array under "items", or nothing to walk over
ItemsOf(j) ==
    IF contains(j, KeyItems) /\ is_array(MemberOf(j, KeyItems))
    THEN MemberOf(j, KeyItems).elems ELSE <<>>

\* line 382: the exception caught is thrown again with
\* "Failed to import DataSet: " before its what()
FailedToImport(e) == TestDataException("Failed to import DataSet: ", e.about, e.prefix)

\* the call threw e and left the store as it met it
ImportFails(e, sets, nameMap, nextSet) ==
    Written(FailedToImport(e), FALSE, sets, nameMap, nextSet)

\* lines 377-379: createDataSet(dataSet); return true
ImportCreates(w, sets, nameMap, nextSet) ==
    IF w.thrown.type # "none"
    THEN ImportFails(w.thrown, sets, nameMap, nextSet)
    ELSE Written(NoException, TRUE, w.sets, w.nameMap, w.nextSet)

\* lines 354-379: the dataset is filled from the object j and created
ImportObject(sets, nameMap, nextSet, j, imported) ==
    IF imported.thrown.type # "none"
    THEN ImportFails(imported.thrown, sets, nameMap, nextSet)
    ELSE ImportCreates(createDataSet(sets, nameMap, nextSet,
                                     MkDataSet(MemberOf(j, KeyName).text, imported.items)),
                       sets, nameMap, nextSet)

\* lines 339-384: importDataSetFromFile(filePath, projectId).  A file is
\* what opening and parsing it gives: it does not open, it is no JSON, or
\* it holds the JSON value json
importDataSetFromFile(sets, nameMap, nextSet, file, uninit) ==
    IF ~file.opens
    THEN ImportFails(TestDataException("Failed to open file: ", file.path, ""),
                     sets, nameMap, nextSet)
    ELSE IF ~file.parses
    THEN ImportFails(TestDataException("parse_error", <<>>, ""), sets, nameMap, nextSet)
    ELSE IF ~contains(file.json, KeyName) \/ ~is_string(MemberOf(file.json, KeyName))
    THEN ImportFails(TestDataException(
                         "Invalid DataSet format: missing or invalid 'name' field", <<>>, ""),
                     sets, nameMap, nextSet)
    ELSE IF DescriptionThrows(file.json)
    THEN ImportFails(TypeError(MemberOf(file.json, KeyDescription)), sets, nameMap, nextSet)
    ELSE ImportObject(sets, nameMap, nextSet, file.json,
                      ImportedItems(ItemsOf(file.json), uninit))

\* createDataSet and addDataItem are no longer called once they have given
\* out this many item ids
MaxDataItems == 1

\* the dataset names callers use, the empty name among them
StoreNames == {Str1("A"), Str1("B"), <<>>}

\* the item lists callers pass
StoreItemLists == {<<>>, <<MkItem(Str1("x"), Str1("5"))>>}

\* the ids callers pass: those createDataSet can have given out, and 0,
\* which it never gives out
StoreIds == 0 .. MaxDataSets

\* the datasets whose items callers work on: the first one, and 0
ItemDataSetIds == {0, 1}

\* the item ids callers pass: those addDataItem can have given out, and 0,
\* which it never gives out and the items callers fill in carry
StoreItemIds == 0 .. MaxDataItems

\* the items callers add
AddedItems == {MkItem(Str1("x"), Str1("5")), MkItem(Str1("z"), Str1("5"))}

\* the items callers update an item to: the item with an id gets the name x
UpdatedItems == {TestDataItem(i, Str1("x"), Str1("5")) : i \in StoreItemIds}

\* the item names callers remove
RemovedNames == {Str1("x"), Str1("z")}

\* the bounds of int, the type of TestDataItem::id (PluginManager.cpp line 390)
INT_MAX == 2147483647
INT_MIN == -INT_MAX - 1

\* what the id of an imported item, which is never assigned, is found to
\* hold.  It can be any int; the store only ever compares ids for equality
\* (lines 171, 175, 215 and 246), so these ints stand for all: each id that
\* callers pass, those that generateDataItemId gives out among them, and
\* the two ints INT_MIN and INT_MAX that are none of those
UninitIds == {INT_MIN, INT_MAX} \cup StoreItemIds

\* the ids the items of a file are found to hold, one for each element of
\* its array, each whatever the memory held
UninitIdsOf(file) == [1 .. Len(ItemsOf(file.json)) -> UninitIds]

\* a file that opens and holds the JSON value json
FileOf(json) == [path |-> Str1("f"), opens |-> TRUE, parses |-> TRUE, json |-> json]

\* the item of a file under a name, with the members given before its name
\* and the value
ItemJsonNamed(name, before, value) ==
    JsonObject(before \o <<JsonMember(KeyName, JsonString(name)),
                           JsonMember(KeyType, JsonString(<<"s", "t", "r", "i", "n", "g">>)),
                           JsonMember(KeyValue, value)>>)

\* the item x of a file
ItemJson(before, value) == ItemJsonNamed(Str1("x"), before, value)

\* a dataset of a file, with the members given before its items
DataSetJson(before, items, name) ==
    JsonObject(before \o <<JsonMember(KeyItems, items), JsonMember(KeyName, JsonString(name))>>)

\* a string value with characters that dump() escapes each in its way
ControlText == <<"a", "\"", "\\", ControlChars[1], Backspace, "\n", ControlChars[31], Nul, "b">>

\* an item with a name only, which the loop passes over
NameOnly == JsonObject(<<JsonMember(KeyName, JsonString(Str1("y")))>>)

\* the member "description" with a number for its value
NumberDescription == <<JsonMember(KeyDescription, JsonNumber(Str1("7")))>>

\* the files callers import: files that do not open or hold no JSON, values
\* without a string "name", datasets under each name whose item x is a
\* number, and datasets A whose description or items are not what the
\* fields of the dataset take, or whose item x is a string with a quote, a
\* backslash and control characters, and a dataset B of two items
ImportFiles ==
    { [path |-> Str1("f"), opens |-> FALSE, parses |-> FALSE, json |-> JsonNull],
      [path |-> Str1("f"), opens |-> TRUE, parses |-> FALSE, json |-> JsonNull],
      FileOf(JsonArray(<<>>)),
      FileOf(JsonObject(<<JsonMember(KeyName, JsonNumber(Str1("5")))>>)) }
    \cup { FileOf(DataSetJson(<<>>, JsonArray(<<ItemJson(<<>>, JsonNumber(Str1("5"))), NameOnly>>),
                              n)) : n \in StoreNames }
    \cup { FileOf(DataSetJson(NumberDescription, JsonArray(<<>>), Str1("A"))),
           FileOf(DataSetJson(<<JsonMember(KeyDescription, JsonString(Str1("d")))>>,
                              JsonString(Str1("i")), Str1("A"))),
           FileOf(DataSetJson(<<>>,
                              JsonArray(<<ItemJson(NumberDescription, JsonString(Str1("5")))>>),
                              Str1("A"))),
           FileOf(DataSetJson(<<>>,
                              JsonArray(<<ItemJson(<<>>, JsonString(ControlText))>>),
                              Str1("A"))),
           FileOf(DataSetJson(<<>>,
                              JsonArray(<<ItemJson(<<>>, JsonNumber(Str1("5"))),
                                          ItemJsonNamed(Str1("y"), <<>>,
                                                        JsonNumber(Str1("7")))>>),
                              Str1("B"))) }

\* the dataset name a file carries, empty when it carries none
NameInFile(file) ==
    IF contains(file.json, KeyName) /\ is_string(MemberOf(file.json, KeyName))
    THEN MemberOf(file.json, KeyName).text ELSE <<>>

\* the record of a writing call that met the store as it is now
StoreCall(op, arg, w) ==
    [op |-> op, arg |-> arg, thrown |-> w.thrown, ret |-> w.ret,
     sets |-> dataSets_, nameMap |-> dataSetNameMap_, nextSet |-> nextDataSetId_,
     nextItem |-> nextDataItemId_]

\* the store after a writing call on the datasets
StoreBecomes(w) ==
    /\ dataSets_' = w.sets
    /\ dataSetNameMap_' = w.nameMap
    /\ nextDataSetId_' = w.nextSet

\* the store after a writing call on the items of a dataset
ItemsBecome(w) ==
    /\ dataSets_' = w.sets
    /\ nextDataItemId_' = w.nextItem

\* TestDataManager::createDataSet(dataSet)
CreateDataSet ==
    /\ nextDataSetId_ <= MaxDataSets
    /\ \E n \in StoreNames, items \in StoreItemLists :
          \E w \in {createDataSet(dataSets_, dataSetNameMap_, nextDataSetId_,
                                  MkDataSet(n, items))} :
             /\ StoreBecomes(w)
             /\ lastStore' = StoreCall("createDataSet", [id |-> 0, name |-> n], w)
    /\ UNCHANGED <<nextDataItemId_, resolveVars, plugins_, regVars, runVars, threadVars,
                   exceptStoreCall>>

\* TestDataManager::updateDataSet(dataSet)
UpdateDataSet ==
    /\ \E id \in StoreIds, n \in StoreNames, items \in StoreItemLists :
          \E w \in {updateDataSet(dataSets_, dataSetNameMap_, nextDataSetId_, id,
                                  MkDataSet(n, items))} :
             /\ StoreBecomes(w)
             /\ lastStore' = StoreCall("updateDataSet", [id |-> id, name |-> n], w)
    /\ UNCHANGED <<nextDataItemId_, resolveVars, plugins_, regVars, runVars, threadVars,
                   exceptStoreCall>>

\* TestDataManager::deleteDataSet(dataSetId)
DeleteDataSet ==
    /\ \E id \in StoreIds :
          \E w \in {deleteDataSet(dataSets_, dataSetNameMap_, nextDataSetId_, id)} :
             /\ StoreBecomes(w)
             /\ lastStore' = StoreCall("deleteDataSet", [id |-> id, name |-> <<>>], w)
    /\ UNCHANGED <<nextDataItemId_, resolveVars, plugins_, regVars, runVars, threadVars,
                   exceptStoreCall>>

\* TestDataManager::importDataSetFromFile(filePath, projectId)
ImportDataSetFromFile ==
    /\ nextDataSetId_ <= MaxDataSets
    /\ \E file \in ImportFiles : \E uninit \in UninitIdsOf(file) :
          \E w \in {importDataSetFromFile(dataSets_, dataSetNameMap_, nextDataSetId_, file,
                                          uninit)} :
             /\ StoreBecomes(w)
             /\ lastStore' = StoreCall("importDataSetFromFile",
                                       [id |-> 0, name |-> NameInFile(file)], w)
    /\ UNCHANGED <<nextDataItemId_, resolveVars, plugins_, regVars, runVars, threadVars,
                   exceptStoreCall>>

\* TestDataManager::addDataItem(dataSetId, dataItem)
AddDataItem ==
    /\ nextDataItemId_ <= MaxDataItems
    /\ \E id \in ItemDataSetIds, dataItem \in AddedItems :
          \E w \in {addDataItem(dataSets_, nextDataItemId_, id, dataItem)} :
             /\ ItemsBecome(w)
             /\ lastStore' = StoreCall("addDataItem", [id |-> id, name |-> dataItem.name], w)
    /\ UNCHANGED <<dataSetNameMap_, nextDataSetId_, resolveVars, plugins_, regVars, runVars,
                   threadVars, exceptStoreCall>>

\* TestDataManager::updateDataItem(dataSetId, dataItem)
UpdateDataItem ==
    /\ \E id \in ItemDataSetIds, dataItem \in UpdatedItems :
          \E w \in {updateDataItem(dataSets_, nextDataItemId_, id, dataItem)} :
             /\ ItemsBecome(w)
             /\ lastStore' = StoreCall("updateDataItem", [id |-> id, name |-> dataItem.name], w)
    /\ UNCHANGED <<dataSetNameMap_, nextDataSetId_, resolveVars, plugins_, regVars, runVars,
                   threadVars, exceptStoreCall>>

\* TestDataManager::removeDataItem(dataSetId, dataItemId)
RemoveDataItem ==
    /\ \E id \in ItemDataSetIds, itemId \in StoreItemIds :
          \E w \in {removeDataItem(dataSets_, nextDataItemId_, id, itemId)} :
             /\ ItemsBecome(w)
             /\ lastStore' = StoreCall("removeDataItem", [id |-> id, name |-> <<>>], w)
    /\ UNCHANGED <<dataSetNameMap_, nextDataSetId_, resolveVars, plugins_, regVars, runVars,
                   threadVars, exceptStoreCall>>

\* TestDataManager::removeDataItembyName(dataSetId, name)
RemoveDataItembyName ==
    /\ \E id \in ItemDataSetIds, n \in RemovedNames :
          \E w \in {removeDataItembyName(dataSets_, nextDataItemId_, id, n)} :
             /\ ItemsBecome(w)
             /\ lastStore' = StoreCall("removeDataItembyName", [id |-> id, name |-> n], w)
    /\ UNCHANGED <<dataSetNameMap_, nextDataSetId_, resolveVars, plugins_, regVars, runVars,
                   threadVars, exceptStoreCall>>

NextStoreOps ==
    \/ CreateDataSet
    \/ UpdateDataSet
    \/ DeleteDataSet
    \/ ImportDataSetFromFile
    \/ AddDataItem
    \/ UpdateDataItem
    \/ RemoveDataItem
    \/ RemoveDataItembyName

\* a TestDataManager just constructed (part_000 lines 9-12); no other
\* component is in use
InitStoreOps ==
    /\ plugins_ = EmptyRegistry
    /\ insts = <<>>
    /\ modRefs = [d \in AllModules |-> 0]
    /\ manager = "alive"
    /\ m_initialized = TRUE
    /\ lastCall = NoCall
    /\ pluginDir = {}
    /\ testCase = [steps |-> <<>>, setup_script |-> "", teardown_script |-> ""]
    /\ dataSets_ = <<>>
    /\ dataSetNameMap_ = <<>>
    /\ nextDataSetId_ = 1
    /\ nextDataItemId_ = 1
    /\ NoResolution
    /\ NoThreads
    /\ NoRest
    /\ pc = "idle"
    /\ stepIdx = 1
    /\ result = DefaultExecutionResult
    /\ calls = <<>>

SpecStoreOps == InitStoreOps /\ [][NextStoreOps]_vars

---------------------------------------------------------------------------
(* A substitution in one thread, updateDataItem in another: the steps *)

\* the datasets the writing thread names: A, and 0, which is none
WriterDataSetIds == {0, 1}

\* the item ids the writing thread passes: those of the items of A, and
\* that of the item of B, which no item of A carries
WriterItemIds == 1..3

\* the names the writing thread gives an item: those the items of A carry
WriterNames == {Str1("x"), Str1("y")}

\* the items the writing thread passes to updateDataItem
WriterItems ==
    {TestDataItem(i, n, v) : i \in WriterItemIds, n \in WriterNames, v \in WriteValues}

\* the datasets once the assignment under way is complete
AfterWrite ==
    IF writing.active
    THEN [dataSets_ EXCEPT ![writing.dataSetId].items[writing.item] = writing.new]
    ELSE dataSets_

\* TestDataManager.cpp lines 164-187: updateDataItem(dataSetId, dataItem) up
\* to its assignment.  It throws for a dataset that does not exist (line
\* 165), for a new name that an item with another id carries (lines
\* 173-179) and for an id no item carries (line 202); otherwise it begins
\* to assign dataItem over the first item with the id of dataItem
BeginUpdateDataItem ==
    /\ ~writing.active
    /\ subPc # "crashed"
    /\ \E id \in WriterDataSetIds, dataItem \in WriterItems :
          LET w == updateDataItem(dataSets_, nextDataItemId_, id, dataItem)
          IN  writing' =
                IF w.thrown.type # "none"
                THEN [NoWrite EXCEPT !.thrown = w.thrown]
                ELSE LET k == Least(PositionsWithId(dataSets_[id].items, dataItem.id))
                     IN  [active |-> TRUE, dataSetId |-> id, item |-> k,
                          old |-> dataSets_[id].items[k], new |-> dataItem,
                          thrown |-> NoException]
    /\ UNCHANGED <<regVars, runVars, plugins_, dataVars, resolveVars, restVars, heldPlugin, subPc,
                   subResult, subTemp, reads>>

\* lines 187-206: the assignment is complete and updateDataItem returns
EndUpdateDataItem ==
    /\ writing.active
    /\ subPc # "crashed"
    /\ dataSets_' = updateDataItem(dataSets_, nextDataItemId_, writing.dataSetId,
                                   writing.new).sets
    /\ writing' = NoWrite
    /\ UNCHANGED <<regVars, runVars, plugins_, dataSetNameMap_, nextDataSetId_,
                   nextDataItemId_, resolveVars, restVars, heldPlugin, subPc, subResult, subTemp, reads>>

\* lines 300-306: substituteDataReferences(inputText) starts
StartSubstitute ==
    /\ subPc = "idle"
    /\ subResult' = inputText
    /\ subTemp' = inputText
    /\ subPc' = "loop"
    /\ UNCHANGED <<regVars, runVars, plugins_, dataVars, resolveVars, restVars, heldPlugin, writing,
                   reads>>

\* lines 315-316: the id the turn for match m looks the item up under, 0
\* when the name map does not have the dataset
ReadDataSet(m) ==
    IF NameMapHas(dataSetNameMap_, m.dataSetName) THEN dataSetNameMap_[m.dataSetName] ELSE 0

\* lines 260-264: the walk of getDataItemByName for match m compares the
\* name of the item being assigned, which it does unless an item before it
\* carries the name
Racing(m) ==
    /\ writing.active
    /\ ReadDataSet(m) = writing.dataSetId
    /\ \A k \in 1..(writing.item - 1) :
          dataSets_[writing.dataSetId].items[k].name # m.itemName

\* the datasets the turn for match m can see: while the item is being
\* assigned, its name and its value are each any of RaceValues
VisibleSets(m) ==
    IF Racing(m)
    THEN {[dataSets_ EXCEPT ![writing.dataSetId].items[writing.item] =
              TestDataItem(writing.old.id, n, v)] :
             n \in RaceValues(writing.old.name, writing.new.name),
             v \in RaceValues(writing.old.value, writing.new.value)}
    ELSE {dataSets_}

\* what getDataItemByName gives the turn for match m on the datasets sets:
\* the value of the item, or nothing where it throws
Got(sets, m) ==
    LET item == getDataItemByName(sets, ReadDataSet(m), m.itemName)
    IN  IF item.thrown.type = "none" THEN <<item.value>> ELSE <<>>

\* lines 307-335: one turn of the loop, or the return when no reference is
\* left.  A turn that races with the assignment has undefined behaviour: it
\* can fault, or read any of VisibleSets.  The turn is put down with what
\* it got, and with what it gets before and after the assignment.
SubstituteOneTurn ==
    /\ subPc = "loop"
    /\ LET m == regex_search(subTemp)
       IN  IF ~m.found
           THEN /\ subPc' = "done"
                /\ UNCHANGED <<subResult, subTemp, reads>>
           ELSE \E how \in (IF Racing(m) THEN {"fault", "read"} ELSE {"read"}) :
                   IF how = "fault"
                   THEN /\ subPc' = "crashed"
                        /\ UNCHANGED <<subResult, subTemp, reads>>
                   ELSE \E sets \in VisibleSets(m) :
                          LET t == SubstituteTurn(sets, dataSetNameMap_, subResult,
                                                  subTemp, m)
                          IN  /\ subResult' = t.result
                              /\ subTemp' = t.temp
                              /\ subPc' = "loop"
                              /\ reads' = Append(reads, [value |-> Got(sets, m),
                                                         old |-> Got(dataSets_, m),
                                                         new |-> Got(AfterWrite, m)])
    /\ UNCHANGED <<regVars, runVars, plugins_, dataVars, resolveVars, restVars, heldPlugin, writing>>

NextStoreThreads ==
    StartSubstitute \/ SubstituteOneTurn \/ BeginUpdateDataItem \/ EndUpdateDataItem

\* the store A = {x: "5", y: "7"}, B = {x: "9"} as two createDataSet and
\* three addDataItem calls leave it, and a text with one token, two tokens,
\* the same token twice, or none
InitStoreThreads ==
    /\ plugins_ = EmptyRegistry
    /\ insts = <<>>
    /\ modRefs = [d \in AllModules |-> 0]
    /\ manager = "alive"
    /\ m_initialized = TRUE
    /\ lastCall = NoCall
    /\ pluginDir = {}
    /\ testCase = [steps |-> <<>>, setup_script |-> "", teardown_script |-> ""]
    /\ dataSets_ = (1 :> MkDataSet(Str1("A"), <<TestDataItem(1, Str1("x"), Str1("5")),
                                                TestDataItem(2, Str1("y"), Str1("7"))>>))
                   @@ (2 :> MkDataSet(Str1("B"), <<TestDataItem(3, Str1("x"), Str1("9"))>>))
    /\ dataSetNameMap_ = (Str1("A") :> 1) @@ (Str1("B") :> 2)
    /\ nextDataSetId_ = 3
    /\ nextDataItemId_ = 4
    /\ inputText \in { TokAx, TokAx \o Sp \o TokAy, TokAx \o TokAx, TokBx \o TokAx,
                       TokAz, <<"a", "b">> }
    /\ prevResolve = NoResolve
    /\ lastResolve = NoResolve
    /\ NoThreads
    /\ NoRest
    /\ pc = "idle"
    /\ stepIdx = 1
    /\ result = DefaultExecutionResult
    /\ calls = <<>>

SpecStoreThreads == InitStoreThreads /\ [][NextStoreThreads]_vars

---------------------------------------------------------------------------
(* ThreadPool (IAutomationPlugin.h lines 316-422).  Every access to tasks
   and stop is made with queue_mutex held, so each locked block is one
   step; a thread blocked in condition.wait holds no lock and goes on only
   after a notification or a spurious wake-up. *)

\* the most worker threads a pool is constructed with
MaxWorkers == 2

\* the threads that call enqueue, each once with a task of its own
MaxCallers == 2

Callers == 1 .. MaxCallers

\* the workers of the pool
Workers == DOMAIN workers

\* the workers blocked in condition.wait
Waiting == {w \in Workers : workers[w].pc = "waiting"}

\* line 361: the predicate of condition.wait
WaitPredicate == stop \/ tasks # <<>>

\* the state outside the pool
outsidePool == <<plugins_, dataVars, resolveVars, threadVars, exceptPool, regVars, runVars>>

\* lines 358-368: a worker with the lock tests the predicate; it blocks when
\* the predicate is false, returns when the pool is stopped and the queue
\* is empty, and otherwise takes the front task
WorkerTake(w) ==
    /\ workers[w].pc = "lock"
    /\ IF ~WaitPredicate
       THEN /\ workers' = [workers EXCEPT ![w].pc = "waiting"]
            /\ UNCHANGED tasks
       ELSE IF stop /\ tasks = <<>>
       THEN /\ workers' = [workers EXCEPT ![w].pc = "exited"]
            /\ UNCHANGED tasks
       ELSE /\ workers' = [workers EXCEPT ![w] = [pc |-> "run", task |-> Head(tasks)]]
            /\ tasks' = Tail(tasks)
    /\ UNCHANGED <<stop, dtor, callers, ran, outsidePool>>

\* line 372: task(), outside the lock; then the loop starts again
WorkerRun(w) ==
    /\ workers[w].pc = "run"
    /\ ran' = [ran EXCEPT ![workers[w].task] = Append(@, w)]
    /\ workers' = [workers EXCEPT ![w] = [pc |-> "lock", task |-> 0]]
    /\ UNCHANGED <<tasks, stop, dtor, callers, outsidePool>>

\* condition.wait may return without a notification; the worker takes the
\* lock and tests the predicate again
SpuriousWakeup(w) ==
    /\ workers[w].pc = "waiting"
    /\ workers' = [workers EXCEPT ![w].pc = "lock"]
    /\ UNCHANGED <<tasks, stop, dtor, callers, ran, outsidePool>>

\* lines 407-416: the locked block of enqueue; it throws std::runtime_error
\* on a stopped pool and puts the task into the queue otherwise
EnqueueLocked(c) ==
    /\ callers[c].pc = "idle"
    /\ dtor.pc # "returned"
    /\ IF stop
       THEN /\ callers' = [callers EXCEPT ![c] = [pc |-> "threw", stopped |-> TRUE]]
            /\ UNCHANGED tasks
       ELSE /\ callers' = [callers EXCEPT ![c] = [pc |-> "notify", stopped |-> FALSE]]
            /\ tasks' = Append(tasks, c)
    /\ UNCHANGED <<workers, stop, dtor, ran, outsidePool>>

\* what condition.notify_one() does to its caller.  Once the destructor has
\* returned the condition_variable is destroyed and its memory freed, and
\* the call is undefined behaviour: it returns, never returns, or ends the
\* process.
NotifyOutcomes == IF dtor.pc = "returned" THEN {"returned", "hung", "crashed"}
                  ELSE {"returned"}

\* lines 419-420: condition.notify_one() wakes one blocked worker if there
\* is one, and enqueue returns the future
EnqueueNotify(c) ==
    /\ callers[c].pc = "notify"
    /\ \A d \in Callers : callers[d].pc # "crashed"
    /\ \E how \in NotifyOutcomes : callers' = [callers EXCEPT ![c].pc = how]
    /\ IF Waiting = {}
       THEN UNCHANGED workers
       ELSE \E w \in Waiting : workers' = [workers EXCEPT ![w].pc = "lock"]
    /\ UNCHANGED <<tasks, stop, dtor, ran, outsidePool>>

\* lines 380-383: the destructor sets stop with the lock held
DtorSetStop ==
    /\ dtor.pc = "alive"
    /\ stop' = TRUE
    /\ dtor' = [dtor EXCEPT !.pc = "notify"]
    /\ UNCHANGED <<workers, tasks, callers, ran, outsidePool>>

\* line 385: condition.notify_all() wakes every blocked worker
DtorNotifyAll ==
    /\ dtor.pc = "notify"
    /\ workers' = [w \in Workers |->
                     IF workers[w].pc = "waiting"
                     THEN [workers[w] EXCEPT !.pc = "lock"] ELSE workers[w]]
    /\ dtor' = [pc |-> "join", next |-> 1]
    /\ UNCHANGED <<tasks, stop, callers, ran, outsidePool>>

\* lines 388-389: worker.join() for each worker in order; after the last
\* one the destructor returns
DtorJoin ==
    /\ dtor.pc = "join"
    /\ IF dtor.next \notin Workers
       THEN dtor' = [dtor EXCEPT !.pc = "returned"]
       ELSE /\ workers[dtor.next].pc = "exited"
            /\ dtor' = [dtor EXCEPT !.next = @ + 1]
    /\ UNCHANGED <<workers, tasks, stop, callers, ran, outsidePool>>

\* the steps of one worker that the scheduler owes it
Worker(w) == WorkerTake(w) \/ WorkerRun(w)

Destructor == DtorSetStop \/ DtorNotifyAll \/ DtorJoin

NextPool ==
    \/ \E w \in Workers : WorkerTake(w)
    \/ \E w \in Workers : WorkerRun(w)
    \/ \E w \in Workers : SpuriousWakeup(w)
    \/ \E c \in Callers : EnqueueLocked(c)
    \/ \E c \in Callers : EnqueueNotify(c)
    \/ DtorSetStop
    \/ DtorNotifyAll
    \/ DtorJoin

\* lines 344-375: ThreadPool(threads) has started its workers, each about
\* to take the lock; no other component is in use
InitPool ==
    /\ plugins_ = EmptyRegistry
    /\ insts = <<>>
    /\ modRefs = [d \in AllModules |-> 0]
    /\ manager = "alive"
    /\ m_initialized = TRUE
    /\ lastCall = NoCall
    /\ pluginDir = {}
    /\ testCase = [steps |-> <<>>, setup_script |-> "", teardown_script |-> ""]
    /\ dataSets_ = <<>>
    /\ dataSetNameMap_ = <<>>
    /\ nextDataSetId_ = 1
    /\ nextDataItemId_ = 1
    /\ NoResolution
    /\ NoThreads
    /\ NoRestButPool
    /\ pc = "idle"
    /\ stepIdx = 1
    /\ result = DefaultExecutionResult
    /\ calls = <<>>
    /\ \E threads \in 0 .. MaxWorkers :
          workers = [w \in 1 .. threads |-> [pc |-> "lock", task |-> 0]]
    /\ tasks = <<>>
    /\ stop = FALSE
    /\ dtor = [pc |-> "alive", next |-> 1]
    /\ callers = [c \in Callers |-> [pc |-> "idle", stopped |-> FALSE]]
    /\ ran = [c \in Callers |-> <<>>]

\* every thread that can take a step of its own code takes it in the end; a
\* caller need not call, and a wait need not wake up without a notification
SpecPool ==
    /\ InitPool
    /\ [][NextPool]_vars
    /\ \A w \in 1 .. MaxWorkers : WF_vars(w \in Workers /\ Worker(w))
    /\ \A c \in Callers : WF_vars(EnqueueNotify(c))
    /\ WF_vars(DtorNotifyAll \/ DtorJoin)

---------------------------------------------------------------------------
(* Vocabulary of the properties *)

StepResults == result.step_results

\* the run has returned
Returned == pc = "done"

\* the run reached step execution and no exception reached executeTestCase's
\* catch clauses: nothing wrote error_message
RanSteps == result.error_message = ""

\* the declared step a step result belongs to, by its step id
DeclaredStep(id) == CHOOSE st \in {testCase.steps[k] : k \in 1..Len(testCase.steps)} : st.id = id

FailedAt(k) == ~StepResults[k].result.success

RequiredAt(k) == ~DeclaredStep(StepResults[k].step_id).is_optional

StopFlagAt(k) == DeclaredStep(StepResults[k].step_id).stop_on_failure

CallsOf(op) == {k \in 1..Len(calls) : calls[k].op = op}

---------------------------------------------------------------------------
(* C1 *)

\* C1: when executeTestCase has returned from a run that reached step
\* execution, overall_success is false exactly if some recorded step result
\* has success = false and belongs to a step that is not optional.
C1_OverallIffRequiredStepFailed ==
    (Returned /\ RanSteps) =>
        (result.overall_success = FALSE
            <=> \E k \in 1..Len(StepResults) : FailedAt(k) /\ RequiredAt(k))

\* one failing optional step and two succeeding steps: overall_success = true
C1_Witness ==
    /\ Returned /\ RanSteps
    /\ Len(StepResults) = 3
    /\ Cardinality({k \in 1..3 : FailedAt(k)}) = 1
    /\ \A k \in 1..3 : FailedAt(k) => ~RequiredAt(k)
    /\ result.overall_success = TRUE

---------------------------------------------------------------------------
(* C2 *)

\* C2: a failing step with stop_on_failure = true is the last one
\* dispatched: no step result and no registry or plugin call follows it, and
\* the returned result holds the step results up to and including it; a run
\* that did not meet such a step has dispatched every declared step, so after
\* a failing step with stop_on_failure = false the next step is dispatched.
C2_StopOnFailureTruncates ==
    /\ \A k \in 1..Len(StepResults) :
          (FailedAt(k) /\ StopFlagAt(k)) =>
              /\ k = Len(StepResults)
              /\ \A c \in 1..Len(calls) : calls[c].step_id <= StepResults[k].step_id
    /\ (Returned /\ RanSteps) =>
          /\ \A k \in 1..Len(StepResults) : StepResults[k].step_id = testCase.steps[k].id
          /\ \/ Len(StepResults) = Len(testCase.steps)
             \/ /\ Len(StepResults) >= 1
                /\ FailedAt(Len(StepResults)) /\ StopFlagAt(Len(StepResults))
          /\ \A k \in 1..Len(testCase.steps) :
                k <= Len(StepResults) <=> \E c \in CallsOf("getPlugin") :
                                             calls[c].step_id = testCase.steps[k].id

\* 3 steps, step 2 (required) fails with stop_on_failure: 2 step results,
\* overall_success = false
C2_Witness ==
    /\ Returned /\ RanSteps
    /\ Len(testCase.steps) = 3
    /\ Len(StepResults) = 2
    /\ ~FailedAt(1)
    /\ FailedAt(2) /\ StopFlagAt(2) /\ RequiredAt(2)
    /\ result.overall_success = FALSE

---------------------------------------------------------------------------
(* C4 *)

WithOptional(step, b) == [step EXCEPT !.is_optional = b]

WithStopFlags(steps, f) == [k \in 1..Len(steps) |-> [steps[k] EXCEPT !.stop_on_failure = f[k]]]

\* C4: the two flags are independent.  Whether the loop stops after a
\* recorded step does not change when the step's is_optional is changed;
\* the overall result of the recorded steps does not change when the steps'
\* stop_on_failure flags are changed; and a run in which an optional step
\* failed with stop_on_failure = true, and no required step failed, ended at
\* that step with overall_success = true.
C4_FlagsIndependent ==
    /\ \A k \in 1..Len(StepResults) : \A b \in BOOLEAN :
          StopsRun(StepResults[k], WithOptional(testCase.steps[k], b))
              = StopsRun(StepResults[k], testCase.steps[k])
    /\ \A f \in [1..Len(testCase.steps) -> BOOLEAN] :
          overallSuccess(StepResults, WithStopFlags(testCase.steps, f))
              = overallSuccess(StepResults, testCase.steps)
    /\ (Returned /\ RanSteps) =>
          \A k \in 1..Len(StepResults) :
              (/\ FailedAt(k) /\ ~RequiredAt(k) /\ StopFlagAt(k)
               /\ \A j \in 1..Len(StepResults) : FailedAt(j) => ~RequiredAt(j))
              => (k = Len(StepResults) /\ result.overall_success = TRUE)

\* a failing optional step with stop_on_failure cut the run short, and the
\* run succeeded
C4_Witness ==
    /\ Returned /\ RanSteps
    /\ Len(StepResults) >= 1
    /\ Len(StepResults) < Len(testCase.steps)
    /\ FailedAt(Len(StepResults)) /\ ~RequiredAt(Len(StepResults))
    /\ StopFlagAt(Len(StepResults))
    /\ result.overall_success = TRUE

---------------------------------------------------------------------------
(* C3 *)

\* C3: the StepParam every executeStep call receives holds the resolved
\* target and value: no token that the data store resolves is left in them.
\* (The stored values of the model hold no token themselves, so a resolved
\* text holds no resolvable token.)
C3_PluginReceivesResolvedParam ==
    \A c \in CallsOf("executeStep") :
        /\ ~HasResolvableToken(dataSets_, dataSetNameMap_, calls[c].param.target)
        /\ ~HasResolvableToken(dataSets_, dataSetNameMap_, calls[c].param.value)

---------------------------------------------------------------------------
(* How a step's dispatch goes, read off the step and the plugins *)

PluginMissing(st) == getPlugin(plugins_, st.plugin_name) = NullPlugin

VocabularyRaises(st) ==
    /\ ~PluginMissing(st)
    /\ PluginSupportedActions(st.plugin_name).throws # "none"

ActionUnsupported(st) ==
    /\ ~PluginMissing(st)
    /\ PluginSupportedActions(st.plugin_name).throws = "none"
    /\ ~SeqContains(PluginSupportedActions(st.plugin_name).actions, st.param.action)

ExecuteRaises(st) ==
    /\ ~PluginMissing(st) /\ ~VocabularyRaises(st) /\ ~ActionUnsupported(st)
    /\ PluginExecuteStep(st.plugin_name, st.param).throws # "none"

\* what the plugin raised for the step: "std", "other" or "none"
Raised(st) ==
    IF VocabularyRaises(st) THEN PluginSupportedActions(st.plugin_name).throws
    ELSE IF ExecuteRaises(st) THEN PluginExecuteStep(st.plugin_name, st.param).throws
    ELSE "none"

PluginCallsFor(st, ops) ==
    {c \in 1..Len(calls) : calls[c].step_id = st.id /\ calls[c].op \in ops}

CodeAt(k) == StepResults[k].result.error_code

---------------------------------------------------------------------------
(* C5 *)

\* C5: the step result of a step whose plugin is not registered has
\* success = false, error code -1 and the message "Plugin not found: <name>";
\* neither supportedActions nor executeStep was called for the step; the run
\* goes on as the step's stop_on_failure says and returns without an error
\* message of the case.
C5_MissingPluginReported ==
    /\ RanSteps
    /\ \A k \in 1..Len(StepResults) :
          LET st == DeclaredStep(StepResults[k].step_id) IN
          PluginMissing(st) =>
              /\ StepResults[k].result.success = FALSE
              /\ CodeAt(k) = -1 /\ CodeAt(k) # 0
              /\ StepResults[k].result.message = "Plugin not found: " \o st.plugin_name
              /\ PluginCallsFor(st, {"supportedActions", "executeStep"}) = {}
              /\ st.stop_on_failure => k = Len(StepResults)
              /\ (Returned /\ ~st.stop_on_failure /\ k < Len(testCase.steps))
                     => Len(StepResults) > k

\* a step with a missing plugin and stop_on_failure = false was followed by
\* the dispatch of the next step
C5_Witness ==
    /\ Returned
    /\ Len(StepResults) = 2
    /\ PluginMissing(testCase.steps[1])
    /\ CodeAt(1) = -1
    /\ PluginCallsFor(testCase.steps[2], {"executeStep"}) # {}

---------------------------------------------------------------------------
(* C6 *)

\* C6: the step result of a step whose action is not in the vocabulary its
\* plugin returns has success = false and error code -2, and executeStep was
\* not called for the step.
C6_UnsupportedActionReported ==
    \A k \in 1..Len(StepResults) :
        LET st == DeclaredStep(StepResults[k].step_id) IN
        ActionUnsupported(st) =>
            /\ StepResults[k].result.success = FALSE
            /\ CodeAt(k) = -2 /\ CodeAt(k) # 0
            /\ PluginCallsFor(st, {"supportedActions"}) # {}
            /\ PluginCallsFor(st, {"executeStep"}) = {}

C6_Witness ==
    /\ Returned
    /\ \E k \in 1..Len(StepResults) :
          /\ ActionUnsupported(testCase.steps[k])
          /\ CodeAt(k) = -2

---------------------------------------------------------------------------
(* C7 *)

\* C7: when the plugin raises during supportedActions or executeStep, the
\* step gets a step result with success = false and error code -3
\* (std::exception) or -4 (anything else), the result is appended to the
\* case's results, and the exception reaches neither the caller of
\* executeTestStep nor executeTestCase's catch clauses: the case's
\* error_message stays empty and the loop goes on as stop_on_failure says.
C7_PluginExceptionsContained ==
    /\ RanSteps
    /\ \A c \in CallsOf("getPlugin") :
          \E k \in 1..Len(StepResults) : StepResults[k].step_id = calls[c].step_id
    /\ \A k \in 1..Len(StepResults) :
          LET st == DeclaredStep(StepResults[k].step_id) IN
          Raised(st) # "none" =>
              /\ StepResults[k].result.success = FALSE
              /\ CodeAt(k) = (IF Raised(st) = "std" THEN -3 ELSE -4)
              /\ CodeAt(k) # 0
              /\ (Returned /\ ~st.stop_on_failure /\ k < Len(testCase.steps))
                     => Len(StepResults) > k

\* supportedActions raised in step 1, executeStep raised in step 2, and the
\* run returned with both step results
C7_Witness ==
    /\ Returned
    /\ Len(StepResults) = 2
    /\ VocabularyRaises(testCase.steps[1])
    /\ ExecuteRaises(testCase.steps[2])
    /\ CodeAt(1) \in {-3, -4} /\ CodeAt(2) \in {-3, -4}

---------------------------------------------------------------------------
(* C8 *)

\* the three dispatch errors of the claim
ErrorKind(st) ==
    IF PluginMissing(st) THEN "missing plugin"
    ELSE IF ActionUnsupported(st) THEN "unsupported action"
    ELSE IF Raised(st) # "none" THEN "plugin exception"
    ELSE "none"

KindAt(k) == ErrorKind(DeclaredStep(StepResults[k].step_id))

\* C8: the dispatch errors get non-zero codes, two step results
\* with dispatch errors of the same kind (missing plugin, unsupported action,
\* plugin exception) carry the same code and two of different kinds carry
\* different codes.
C8_OneCodePerKind ==
    \A j \in 1..Len(StepResults), k \in 1..Len(StepResults) :
        (KindAt(j) # "none" /\ KindAt(k) # "none") =>
            /\ CodeAt(j) # 0
            /\ (KindAt(j) = KindAt(k)) <=> (CodeAt(j) = CodeAt(k))

---------------------------------------------------------------------------
(* C10 *)

\* C10: the teardown hook is called at most once and nothing is dispatched
\* after it; a run that reached step execution and declares a teardown hook
\* has called it exactly once when it returns, also when a stop-on-failure
\* step cut the loop short; and the returned overall_success is the one the
\* step results give.
C10_TeardownOnceAfterSteps ==
    /\ Cardinality(CallsOf("executeTeardown")) <= 1
    /\ \A c \in CallsOf("executeTeardown") : c = Len(calls)
    /\ testCase.teardown_script = "" => CallsOf("executeTeardown") = {}
    /\ (Returned /\ RanSteps) =>
          /\ testCase.teardown_script # ""
                => Cardinality(CallsOf("executeTeardown")) = 1
          /\ result.overall_success
                = ~(\E k \in 1..Len(StepResults) : FailedAt(k) /\ RequiredAt(k))

\* a run cut short by a stop-on-failure step has called the teardown hook
C10_Witness ==
    /\ Returned /\ RanSteps
    /\ Len(StepResults) >= 1
    /\ Len(StepResults) < Len(testCase.steps)
    /\ FailedAt(Len(StepResults)) /\ StopFlagAt(Len(StepResults))
    /\ Cardinality(CallsOf("executeTeardown")) = 1
    /\ calls[Len(calls)].op = "executeTeardown"

---------------------------------------------------------------------------
(* C11 *)

\* C11: every call of executeTestCase, on any core and with any plugin
\* behaviour, eventually returns a result with end time and total duration
\* stamped.
C11_EveryCallReturnsStamped == <>(Returned /\ result.stamped)

---------------------------------------------------------------------------
(* C12 *)

\* the calls made on the registry and on plugins for steps
DispatchCalls == {c \in 1..Len(calls) : calls[c].op \in {"getPlugin", "supportedActions",
                                                        "executeStep"}}

\* the position in the case's step list of the step with this id
PositionOf(id) == CHOOSE k \in 1..Len(testCase.steps) : testCase.steps[k].id = id

\* C12: at every point of a case run the recorded step results are a prefix
\* of the case's step list (the i-th result carries the id of the i-th
\* declared step), the calls made for steps follow the declared order, and
\* every step that has been dispatched has its result recorded before a
\* later step is dispatched: the steps dispatched so far are exactly those
\* with a recorded result, and the loop stands at the step after them.
C12_DispatchInDeclaredOrder ==
    /\ Len(StepResults) <= Len(testCase.steps)
    /\ \A k \in 1..Len(StepResults) : StepResults[k].step_id = testCase.steps[k].id
    /\ \A c \in DispatchCalls : PositionOf(calls[c].step_id) <= Len(StepResults)
    /\ \A k \in 1..Len(StepResults) : \E c \in DispatchCalls : calls[c].step_id = StepResults[k].step_id
    /\ \A c, e \in DispatchCalls :
          c < e => PositionOf(calls[c].step_id) <= PositionOf(calls[e].step_id)
    /\ pc = "steps" => stepIdx = Len(StepResults) + 1

\* between two steps: the first step's result is recorded (it failed
\* without stop_on_failure) and nothing was dispatched for the second
C12_Witness ==
    /\ pc = "steps"
    /\ Len(testCase.steps) = 2
    /\ Len(StepResults) = 1
    /\ FailedAt(1) /\ ~StopFlagAt(1)
    /\ DispatchCalls # {}
    /\ \A c \in DispatchCalls : calls[c].step_id = testCase.steps[1].id

---------------------------------------------------------------------------
(* C13 *)

\* the returned result says in words what went wrong
Explained ==
    \/ result.error_message # ""
    \/ \E k \in 1..Len(StepResults) :
          StepResults[k].result.message # "" \/ StepResults[k].result.err_info # ""

\* C13: whenever a call returns with overall_success = false, the returned
\* result has a non-empty error_message or a step result with a non-empty
\* message or err_info, whatever the plugins do and also on a core that is
\* not initialized.
C13_FailureIsExplained == (Returned /\ ~result.overall_success) => Explained

---------------------------------------------------------------------------
(* Vocabulary of the registry properties *)

RegisteredNames == DOMAIN plugins_

\* the last call was loadPlugin / unloadPlugin / unloadAllPlugins
LastLoad == lastCall.op = "loadPlugin"
LastUnload == lastCall.op = "unloadPlugin"
LastUnloadAll == lastCall.op = "unloadAllPlugins"

\* the last call came back to its caller (it neither raised nor crashed)
CameBack == lastCall.outcome = "returned"

\* the plugin objects the last call constructed
Constructed == {lastCall.events[k].inst : k \in {j \in 1..Len(lastCall.events) :
                    lastCall.events[j].ev = "createPlugin"
                    /\ lastCall.events[j].inst # NullPlugin}}

\* where in the last call's events a call on object i is found (0: nowhere)
EventAt(kind, i) ==
    IF \E k \in 1..Len(lastCall.events) :
          lastCall.events[k].ev = kind /\ lastCall.events[k].inst = i
    THEN CHOOSE k \in 1..Len(lastCall.events) :
          lastCall.events[k].ev = kind /\ lastCall.events[k].inst = i
    ELSE 0

\* plugin object i is held by a registry entry
Held(i) == \E n \in RegisteredNames : plugins_[n].plugin = i

\* the registered plugin objects of a registry
HeldIn(registry) == {registry[n].plugin : n \in DOMAIN registry} \ {NullPlugin}

---------------------------------------------------------------------------
(* C14 *)

\* the name the module of the last loadPlugin call gives its plugin
LoadedName == PluginModule(lastCall.arg).name

\* the last call was a loadPlugin of a module that constructs a plugin whose
\* name was registered when the call was made
LastLoadOfDuplicate ==
    /\ LastLoad
    /\ PluginModule(lastCall.arg).creates
    /\ LoadedName \in DOMAIN lastCall.before

\* C14: after any sequence of loadPlugin, unloadPlugin and unloadAllPlugins
\* calls no two registered plugin objects have the same name, and each is
\* registered under its own name.  A loadPlugin of a module whose plugin
\* name is already registered returns false and leaves the registry as it
\* was: the same number of plugins, the earlier plugin of that name still
\* in place, and no call of this loadPlugin touched that plugin, so it is
\* as usable as before.
C14_NamesUniqueDuplicateRejected ==
    /\ \A n \in RegisteredNames :
          plugins_[n].plugin # NullPlugin => PluginName(insts, plugins_[n].plugin) = n
    /\ \A i, j \in DOMAIN insts :
          (insts[i].destroyCalls = 0 /\ insts[j].destroyCalls = 0
           /\ PluginName(insts, i) = PluginName(insts, j)) => i = j
    /\ LastLoadOfDuplicate =>
          /\ lastCall.ret = FALSE
          /\ plugins_ = lastCall.before
          /\ Cardinality(RegisteredNames) = Cardinality(DOMAIN lastCall.before)
          /\ plugins_[LoadedName].plugin # NullPlugin =>
                /\ \A k \in 1..Len(lastCall.events) :
                      lastCall.events[k].inst # plugins_[LoadedName].plugin
                /\ insts[plugins_[LoadedName].plugin].destroyCalls = 0
                /\ modRefs[plugins_[LoadedName].hModule] >= 1

\* with A (from a.dll) and B registered, a2.dll, whose plugin is also named
\* A, was refused; a.dll's plugin is still the one registered
C14_Witness ==
    /\ LastLoadOfDuplicate
    /\ lastCall.arg = "a2.dll"
    /\ lastCall.ret = FALSE
    /\ RegisteredNames = {"A", "B"}
    /\ plugins_["A"].hModule = "a.dll"
    /\ insts[plugins_["A"].plugin].destroyCalls = 0

---------------------------------------------------------------------------
(* C15 *)

\* the last call was a loadPlugin that returned false
LastLoadRejected == LastLoad /\ lastCall.ret = FALSE

\* the ways a loadPlugin call is rejected after the module was loaded
RollbackCauses ==
    {"missing entry point", "null instance", "invalid", "duplicate", "initialize failed"}

\* C15: a loadPlugin call that was rejected (missing entry point, null from
\* the constructor, empty name, duplicate name, initialize returning false)
\* has rolled back: every plugin object the call constructed was destroyed
\* exactly once through the module's destroyPlugin, while the module was
\* still loaded; the module the call loaded was released exactly once, as
\* the call's last act; and the registry is what it was before the call.
C15_RejectedLoadRollsBack ==
    LastLoadRejected =>
        /\ plugins_ = lastCall.before
        /\ lastCall.why \in RollbackCauses <=> lastCall.events # <<>>
        /\ lastCall.why \in {"invalid", "duplicate", "initialize failed"}
              <=> Constructed # {}
        /\ \A i \in Constructed :
              /\ Count(lastCall.events, "destroyPlugin", i) = 1
              /\ lastCall.events[EventAt("destroyPlugin", i)].module = lastCall.arg
              /\ EventAt("createPlugin", i) < EventAt("destroyPlugin", i)
              /\ EventAt("destroyPlugin", i) < Len(lastCall.events)
              /\ ~Held(i)
        /\ lastCall.events # <<>> =>
              /\ CountModule(lastCall.events, "LoadLibrary", lastCall.arg) = 1
              /\ CountModule(lastCall.events, "FreeLibrary", lastCall.arg) = 1
              /\ lastCall.events[Len(lastCall.events)].ev = "FreeLibrary"
        /\ modRefs[lastCall.arg]
              = Cardinality({n \in RegisteredNames : plugins_[n].plugin # NullPlugin
                                                     /\ plugins_[n].hModule = lastCall.arg})

\* badinit.dll was refused after its plugin's initialize returned false,
\* with a plugin of another module registered
C15_Witness ==
    /\ LastLoadRejected
    /\ lastCall.arg = "badinit.dll"
    /\ lastCall.why = "initialize failed"
    /\ Constructed # {}
    /\ Cardinality(RegisteredNames) = 1
    /\ modRefs["badinit.dll"] = 0

---------------------------------------------------------------------------
(* C16 *)

\* the plugin objects getPlugin and getPlugins can return
Visible == HeldIn(plugins_)

\* uninitialize() has been called on plugin object i (PluginManager.cpp
\* lines 119 and 137)
Uninitialized(i) == insts[i].uninitCalls > 0

\* the last loadPlugin call got past validation and the duplicate check
PassedChecks == lastCall.why \in {"", "initialize failed"}

\* C16: a loadPlugin call calls initialize exactly once on the object it
\* constructed when the object passed validation and the duplicate check,
\* and not at all otherwise; it registers the object only after initialize
\* returned true.  Hence every plugin that getPlugin or getPlugins can
\* return has had initialize called once, with result true, and has not
\* had uninitialize called on it; a plugin whose initialize returned false
\* is never visible.
C16_InitializedBeforeVisible ==
    /\ LastLoad =>
          /\ \A i \in Constructed :
                Count(lastCall.events, "initialize", i) = IF PassedChecks THEN 1 ELSE 0
          /\ PassedChecks => Constructed # {}
          /\ lastCall.ret = TRUE <=> (PassedChecks /\ PluginModule(lastCall.arg).initOk)
          /\ lastCall.ret = TRUE =>
                \A i \in Constructed :
                    /\ plugins_[LoadedName] = MkHandle(lastCall.arg, i)
                    /\ i \notin HeldIn(lastCall.before)
          /\ lastCall.ret = FALSE => \A i \in Constructed : i \notin Visible
    /\ \A i \in Visible :
          /\ insts[i].initCalls = 1
          /\ PluginModule(insts[i].dll).initOk
          /\ ~Uninitialized(i)
          /\ insts[i].destroyCalls = 0
    /\ \A n \in RegisteredNames : plugins_[n].hModule # "badinit.dll"

---------------------------------------------------------------------------
(* C17 *)

\* the last call was unloadPlugin of a name that was registered / unknown
LastUnloadOfRegistered == LastUnload /\ lastCall.arg \in DOMAIN lastCall.before
LastUnloadOfUnknown == LastUnload /\ lastCall.arg \notin DOMAIN lastCall.before

\* the handle the last unloadPlugin call found
Found == lastCall.before[lastCall.arg]

\* C17: an unloadPlugin(name) call on a registered name comes back with
\* true, having called the plugin's uninitialize, then the module's
\* destroyPlugin on the object, then FreeLibrary on the module, in this
\* order and nothing else, and having removed the name and only the name
\* from the registry.  On an unknown name the call returns false, makes no
\* call and changes nothing; a name that was unloaded is unknown
\* afterwards, so unloading it again returns false.
C17_UnloadReleasesInOrder ==
    /\ LastUnloadOfRegistered =>
          /\ CameBack
          /\ lastCall.ret = TRUE
          /\ lastCall.events = << Ev("uninitialize", Found.hModule, Found.plugin),
                                  Ev("destroyPlugin", Found.hModule, Found.plugin),
                                  Ev("FreeLibrary", Found.hModule, Found.plugin) >>
          /\ RegisteredNames = DOMAIN lastCall.before \ {lastCall.arg}
          /\ \A n \in RegisteredNames : plugins_[n] = lastCall.before[n]
          /\ insts[Found.plugin].uninitCalls = 1
          /\ insts[Found.plugin].destroyCalls = 1
          /\ insts[Found.plugin].freeCalls = 1
    /\ LastUnloadOfUnknown =>
          /\ CameBack
          /\ lastCall.ret = FALSE
          /\ lastCall.events = <<>>
          /\ plugins_ = lastCall.before

---------------------------------------------------------------------------
(* C18 *)

\* C18: right after a loadPlugin that returned true for a plugin named n,
\* getPlugin(n) returns the object that call constructed, whose name is n
\* and whose version is the one its module gives, and hasPlugin(n) is true;
\* and as long as a registered object is not released getPlugin of its name
\* returns it.  After an unloadPlugin(n), and for every name after an
\* unloadAllPlugins, getPlugin returns nothing and hasPlugin is false.  A
\* lookup of a name that is not registered is not a fault: getPlugin
\* returns nullptr and hasPlugin false.
C18_LookupFollowsLoadAndUnload ==
    /\ (LastLoad /\ lastCall.ret = TRUE) =>
          /\ hasPlugin(plugins_, LoadedName)
          /\ getPlugin(plugins_, LoadedName) # NullPlugin
          /\ getPlugin(plugins_, LoadedName) \in Constructed
          /\ PluginName(insts, getPlugin(plugins_, LoadedName)) = LoadedName
          /\ PluginVersion(insts, getPlugin(plugins_, LoadedName))
                = PluginModule(lastCall.arg).version
    /\ \A i \in DOMAIN insts :
          insts[i].destroyCalls = 0 =>
              /\ hasPlugin(plugins_, PluginName(insts, i))
              /\ getPlugin(plugins_, PluginName(insts, i)) = i
    /\ LastUnload =>
          /\ ~hasPlugin(plugins_, lastCall.arg)
          /\ getPlugin(plugins_, lastCall.arg) = NullPlugin
    /\ LastUnloadAll =>
          \A n \in AskedNames \cup DOMAIN lastCall.before :
              ~hasPlugin(plugins_, n) /\ getPlugin(plugins_, n) = NullPlugin
    /\ \A n \in AskedNames \ RegisteredNames :
          ~hasPlugin(plugins_, n) /\ getPlugin(plugins_, n) = NullPlugin

---------------------------------------------------------------------------
(* C19 *)

\* the last call ran unloadAllPlugins (by itself, from the destructor or
\* from AutomationCore::uninitialize) over a registry holding a plugin
\* whose uninitialize raises
TeardownMetRaisingPlugin ==
    /\ lastCall.op \in {"unloadAllPlugins", "~PluginManager", "uninitialize"}
    /\ \E i \in HeldIn(lastCall.before) : PluginModule(insts[i].dll).uninitRaises

\* C19: unloadAllPlugins keeps going when a plugin's uninitialize raises:
\* the call comes back, every plugin that was registered, the raising one
\* included, has been destroyed and its module released, every one of them
\* had uninitialize called, and the registry is empty.
C19_TeardownSurvivesRaisingHook ==
    TeardownMetRaisingPlugin =>
        /\ CameBack
        /\ plugins_ = EmptyRegistry
        /\ \A i \in HeldIn(lastCall.before) :
              /\ insts[i].uninitCalls >= 1
              /\ insts[i].destroyCalls = 1
              /\ insts[i].freeCalls = 1

---------------------------------------------------------------------------
(* C20 *)

\* the registry is gone: its destructor has run
Destroyed == manager = "destroyed"

\* C20: with hooks that do not raise, over any sequence of loadPlugin,
\* unloadPlugin, unloadAllPlugins, AutomationCore::uninitialize and
\* destruction of the registry, a plugin object whose initialize succeeded
\* has had initialize called once and is either still registered, with no
\* call of uninitialize, destroyPlugin or FreeLibrary made for it, or has
\* had each of them exactly once; when the registry is destroyed every such
\* object has had each exactly once and no module reference is left.  In
\* particular AutomationCore::uninitialize, which runs unloadAllPlugins
\* and then the destructor, comes back with every object released once.
C20_EachPluginReleasedOnce ==
    /\ \A i \in DOMAIN insts :
          /\ insts[i].initCalls = 1
          /\ IF Held(i)
             THEN insts[i].uninitCalls = 0 /\ insts[i].destroyCalls = 0
                  /\ insts[i].freeCalls = 0
             ELSE insts[i].uninitCalls = 1 /\ insts[i].destroyCalls = 1
                  /\ insts[i].freeCalls = 1
    /\ \A d \in AllModules :
          modRefs[d] = Cardinality({i \in DOMAIN insts : Held(i) /\ insts[i].dll = d})
    /\ manager \in {"alive", "destroyed"}
    /\ Destroyed => /\ plugins_ = EmptyRegistry
                    /\ \A i \in DOMAIN insts : ~Held(i)
    /\ lastCall.op \in {"uninitialize", "~PluginManager"} => (CameBack /\ Destroyed)
    /\ lastCall.op = "uninitialize" => ~m_initialized

\* three plugins were registered over time, one was unloaded by name, and
\* AutomationCore::uninitialize released the two that were left
C20_Witness ==
    /\ lastCall.op = "uninitialize"
    /\ Destroyed /\ ~m_initialized
    /\ Len(insts) = 3
    /\ Cardinality(HeldIn(lastCall.before)) = 2
    /\ \A i \in DOMAIN insts :
          insts[i].uninitCalls = 1 /\ insts[i].destroyCalls = 1 /\ insts[i].freeCalls = 1

---------------------------------------------------------------------------
(* C21 *)

\* the last call was a loadPlugin of a module that is found, loads, exports
\* the contract's entry points and constructs a plugin object
LastLoadConstructs ==
    /\ LastLoad
    /\ PluginModule(lastCall.arg).exists
    /\ PluginModule(lastCall.arg).loads
    /\ ContractExports \subseteq PluginModule(lastCall.arg).exports
    /\ PluginModule(lastCall.arg).creates

\* C21: a loadPlugin whose module constructs a plugin with an empty name
\* returns false and registers nothing: the registry is what it was and no
\* entry has the empty name.  A plugin with a name and an empty version is
\* accepted: its loadPlugin returns true and registers it, unless the name
\* is already registered or its initialize returned false; the missing
\* version alone is never why a loadPlugin fails.
C21_EmptyNameRejectedEmptyVersionAccepted ==
    /\ "" \notin RegisteredNames
    /\ (LastLoadConstructs /\ LoadedName = "") =>
          /\ lastCall.ret = FALSE
          /\ lastCall.why = "invalid"
          /\ plugins_ = lastCall.before
    /\ (LastLoadConstructs /\ LoadedName # "" /\ PluginModule(lastCall.arg).version = "") =>
          /\ lastCall.ret = (LoadedName \notin DOMAIN lastCall.before
                             /\ PluginModule(lastCall.arg).initOk)
          /\ lastCall.why # "invalid"
          /\ lastCall.ret =>
                /\ LoadedName \in RegisteredNames
                /\ plugins_[LoadedName].hModule = lastCall.arg

\* anon.dll, whose plugin has no name, was refused while B, the plugin of
\* b.dll that has no version, is registered
C21_Witness ==
    /\ LastLoadConstructs
    /\ lastCall.arg = "anon.dll"
    /\ lastCall.ret = FALSE
    /\ "B" \in RegisteredNames
    /\ plugins_["B"].hModule = "b.dll"
    /\ plugins_["B"].plugin # NullPlugin
    /\ PluginVersion(insts, plugins_["B"].plugin) = ""

---------------------------------------------------------------------------
(* C22 *)

\* the last call was a loadPlugin of the Win32 plugin's module
LastLoadOfWin32 == LastLoad /\ lastCall.arg = "TestAutomation.dll"

\* C22: a loadPlugin of the module built as the Win32 plugin documents it,
\* exporting CreatePluginInstance, on a registry without a plugin of its
\* name is accepted: it returns true, it asked the module for the instance
\* and Win32AutomationPlugin is registered.
C22_Win32ModuleAccepted ==
    (LastLoadOfWin32 /\ "Win32AutomationPlugin" \notin DOMAIN lastCall.before) =>
        /\ lastCall.ret = TRUE
        /\ Constructed # {}
        /\ "Win32AutomationPlugin" \in RegisteredNames

---------------------------------------------------------------------------
(* Vocabulary of the resolution properties *)

\* the last call was one of the two substitutions of all references
LastSubstituteAll ==
    lastResolve.op \in {"substituteDataReferences", "resolveDataReferences"}

\* the last call was resolveDataReference
LastResolveSingle == lastResolve.op = "resolveDataReference"

\* call c came back with a value instead of throwing
CameBackWith(c) == c.thrown.type = "none"

\* no stored value holds a "$"
PlainValues(sets) ==
    \A id \in DOMAIN sets : \A k \in 1..Len(sets[id].items) :
        ~HasChar(sets[id].items[k].value, "$")

\* where the token that begins at a and that the store resolves ends (0: no
\* such token begins at a)
ResolvableEnd(sets, nameMap, t, a) ==
    LET ends == {b \in a..Len(t) : ResolvableTokenAt(sets, nameMap, t, a, b)}
    IN  IF ends = {} THEN 0 ELSE Least(ends)

\* the stored value the token t[a..b] names
TokenValue(sets, nameMap, t, a, b) ==
    LET dot  == Find(t, <<".">>, a + 2)
        id   == DataSetIdOf(nameMap, SubText(t, a + 2, dot - 1))
        item == SubText(t, dot + 1, b - 1)
    IN  sets[id].items[Least({k \in 1..Len(sets[id].items) :
                                 sets[id].items[k].name = item})].value

\* t from position a on with every token the store resolves replaced by its
\* value, read from left to right; the values put in are not read again
RECURSIVE SubstitutedFrom(_, _, _, _)
SubstitutedFrom(sets, nameMap, t, a) ==
    IF a > Len(t) THEN <<>>
    ELSE LET b == ResolvableEnd(sets, nameMap, t, a)
         IN  IF b = 0 THEN <<t[a]>> \o SubstitutedFrom(sets, nameMap, t, a + 1)
             ELSE TokenValue(sets, nameMap, t, a, b)
                  \o SubstitutedFrom(sets, nameMap, t, b + 1)

\* every "${" of t begins a token ${d.i} whose d and i hold none of the
\* characters "$", "{", "}" and "."
OnlyPlainTokens(t) ==
    \A a \in 1..Len(t) :
        (t[a] = "$" /\ a < Len(t) /\ t[a + 1] = "{") =>
            LET dot   == Find(t, <<".">>, a + 2)
                close == Find(t, <<"}">>, a + 2)
                inner == SubText(t, a + 2, close - 1)
            IN  /\ a + 2 < dot /\ dot + 1 < close
                /\ ~HasChar(inner, "$") /\ ~HasChar(inner, "{")
                /\ Find(t, <<".">>, dot + 1) \notin (dot + 1)..close

---------------------------------------------------------------------------
(* C23 *)

\* C23: over a store whose values hold no "$", the text a substitution
\* (substituteDataReferences or AutomationCore::resolveDataReferences)
\* returns holds no token ${d.i} whose dataset and item exist: each was
\* replaced wherever it stood, also behind a malformed "${q}" or "${", and
\* two different resolvable tokens of one text were both replaced.
C23_EveryResolvableTokenReplaced ==
    (LastSubstituteAll /\ CameBackWith(lastResolve) /\ PlainValues(lastResolve.sets)) =>
        ~HasResolvableToken(lastResolve.sets, lastResolve.nameMap, lastResolve.ret)

---------------------------------------------------------------------------
(* C24 *)

\* C24: a substitution of a text none of whose tokens the store resolves
\* (dataset unknown, or dataset known and item unknown) returns normally and
\* returns the text as it was given; so substituting what such a call
\* returned gives the same text again.
C24_UnresolvableTokenNeverFails ==
    /\ (LastSubstituteAll
        /\ ~HasResolvableToken(lastResolve.sets, lastResolve.nameMap, lastResolve.arg)) =>
          /\ CameBackWith(lastResolve)
          /\ lastResolve.ret = lastResolve.arg
    /\ (LastSubstituteAll /\ prevResolve.op = lastResolve.op
        /\ ~HasResolvableToken(prevResolve.sets, prevResolve.nameMap, prevResolve.arg)
        /\ CameBackWith(prevResolve) /\ lastResolve.arg = prevResolve.ret) =>
          /\ CameBackWith(lastResolve)
          /\ lastResolve.ret = prevResolve.ret

---------------------------------------------------------------------------
(* C25 *)

\* C25: a substitution of a text whose "${" all begin plain tokens, over a
\* store with a value that itself holds a token, returns the text with each
\* token of the input replaced by its stored value and the values put in
\* left as they are stored: nothing inside an inserted value is resolved.
C25_InsertedTextNotResolvedAgain ==
    (LastSubstituteAll /\ CameBackWith(lastResolve) /\ ~PlainValues(lastResolve.sets)
     /\ OnlyPlainTokens(lastResolve.arg)) =>
        lastResolve.ret
            = SubstitutedFrom(lastResolve.sets, lastResolve.nameMap, lastResolve.arg, 1)

---------------------------------------------------------------------------
(* C26 *)

\* t is exactly one token ${d.i}: d without ".", i without "}", both with at
\* least one character, and nothing before or behind
WholeToken(t) ==
    /\ Len(t) >= 6
    /\ t[1] = "$" /\ t[2] = "{" /\ t[Len(t)] = "}"
    /\ \E dot \in 4..(Len(t) - 2) :
          /\ t[dot] = "."
          /\ ~HasChar(SubText(t, 3, dot - 1), ".")
          /\ ~HasChar(SubText(t, dot + 1, Len(t) - 1), "}")

\* the names in a text that is one token
TokenDataSet(t) == SubText(t, 3, Find(t, <<".">>, 3) - 1)
TokenItem(t) == SubText(t, Find(t, <<".">>, 3) + 1, Len(t) - 1)

\* why resolving the argument of call c must fail, if it must
FailureCause(c) ==
    IF ~WholeToken(c.arg) THEN "syntax"
    ELSE IF TokenDataSet(c.arg) \notin DOMAIN c.nameMap THEN "dataset"
    ELSE IF ~HasItemNamed(c.sets, DataSetIdOf(c.nameMap, TokenDataSet(c.arg)),
                          TokenItem(c.arg))
    THEN "item"
    ELSE "none"

\* resolveDataReference succeeds exactly on a text that is one token whose
\* dataset and item exist, and then returns the stored value as it is; in
\* every other case it throws and returns no value
ResolveSingleOutcome ==
    LastResolveSingle =>
        /\ CameBackWith(lastResolve) <=> FailureCause(lastResolve) = "none"
        /\ CameBackWith(lastResolve) =>
              lastResolve.ret = TokenValue(lastResolve.sets, lastResolve.nameMap,
                                           lastResolve.arg, 1, Len(lastResolve.arg))
        /\ ~CameBackWith(lastResolve) => lastResolve.ret = <<>>

\* the kind of the error call c raised: the type of the exception
ResolveErrorKind(c) == c.thrown.type

\* the last two calls were resolveDataReference calls that failed for
\* different reasons
TwoDifferentFailures ==
    /\ LastResolveSingle /\ prevResolve.op = "resolveDataReference"
    /\ ~CameBackWith(lastResolve) /\ ~CameBackWith(prevResolve)
    /\ FailureCause(prevResolve) # FailureCause(lastResolve)

\* C26: resolveDataReference succeeds only on a text
\* that is exactly one token, returning the stored value, and fails without
\* a value on a syntax mismatch, an unknown dataset and an unknown item;
\* two failures with different reasons raise errors of different kinds.
C26_FailuresAreDistinctKinds ==
    /\ ResolveSingleOutcome
    /\ TwoDifferentFailures => ResolveErrorKind(prevResolve) # ResolveErrorKind(lastResolve)

---------------------------------------------------------------------------
(* C27 *)

\* C27: after a call of resolveDataReference, substituteDataReferences or
\* AutomationCore::resolveDataReferences, whether it returned or threw, the
\* datasets with their items and values, the name-to-id map and the two id
\* counters are what they were when the call was made.
C27_ResolutionReadOnly ==
    lastResolve.op # "none" =>
        /\ dataSets_ = lastResolve.sets
        /\ dataSetNameMap_ = lastResolve.nameMap
        /\ nextDataSetId_ = lastResolve.nextSet
        /\ nextDataItemId_ = lastResolve.nextItem

\* a substitution replaced a token and then resolveDataReference threw for
\* an unknown dataset; the store is as it was before both
C27_Witness ==
    /\ prevResolve.op = "substituteDataReferences"
    /\ prevResolve.ret # prevResolve.arg
    /\ LastResolveSingle
    /\ FailureCause(lastResolve) = "dataset"
    /\ ~CameBackWith(lastResolve)
    /\ dataSets_ = prevResolve.sets
    /\ dataSetNameMap_ = prevResolve.nameMap

---------------------------------------------------------------------------
(* C28 *)

\* at how many positions tok stands in t
Occurrences(t, tok) ==
    Cardinality({a \in 1..Len(t) : a + Len(tok) - 1 <= Len(t)
                                   /\ SubText(t, a, a + Len(tok) - 1) = tok})

\* a token the store resolves stands at two or more positions of c's text
RepeatedResolvableToken(c) ==
    \E a \in 1..Len(c.arg), b \in 1..Len(c.arg) :
        /\ ResolvableTokenAt(c.sets, c.nameMap, c.arg, a, b)
        /\ Occurrences(c.arg, SubText(c.arg, a, b)) >= 2

\* C28: substituteDataReferences of a text in which a token the store
\* resolves stands several times returns the text with every occurrence of
\* the input replaced by the token's stored value, none left as it was and
\* none replaced by anything else.
C28_RepeatedTokenReplacedEverywhere ==
    (lastResolve.op = "substituteDataReferences" /\ RepeatedResolvableToken(lastResolve)) =>
        /\ CameBackWith(lastResolve)
        /\ lastResolve.ret
              = SubstitutedFrom(lastResolve.sets, lastResolve.nameMap, lastResolve.arg, 1)

---------------------------------------------------------------------------
(* C29 *)

\* C29: a case run never holds, between the lookup of a step's plugin and
\* the use of it, a pointer to a plugin object that was destroyed or whose
\* module was released, and so never faults in using one: no loadPlugin,
\* unloadPlugin or unloadAllPlugins of another thread takes effect between
\* a getPlugin of the run and the calls made through what it returned.
C29_CaseRunNeverHoldsReleasedPlugin ==
    /\ pc = "dispatch" => ~Dangling(heldPlugin)
    /\ pc # "crashed"

---------------------------------------------------------------------------
(* C30 *)

\* C30: every item value a substitution read while an updateDataItem was
\* under way is the value the item held before the write or the value it
\* holds after it, never a mixture of both, and the substitution does not
\* fault on a store in an intermediate state.
C30_SubstitutionReadsWholeValues ==
    /\ \A k \in 1..Len(reads) : reads[k].value \in {reads[k].old, reads[k].new}
    /\ subPc # "crashed"

---------------------------------------------------------------------------
(* C31 *)

\* the last call was executeTestCasesParallel on an initialized core with
\* a non-empty list of cases
LastParallelOnInitialized ==
    /\ lastParallel.op = "executeTestCasesParallel"
    /\ m_initialized
    /\ m_testEngine = "alive"
    /\ lastParallel.cases # <<>>

\* C31: on an initialized core, executeTestCasesParallel called with a
\* non-empty list of test cases returns exactly one TestExecutionResult per
\* submitted test case.
C31_OneResultPerSubmittedCase ==
    LastParallelOnInitialized => Len(lastParallel.ret) = Len(lastParallel.cases)

---------------------------------------------------------------------------
(* C32 *)

\* the loop of executeTestCase has run its iteration for the k-th step
ReachedStep(k) == k < stepIdx

\* the plugin of the step returned a vocabulary and the action is in it
InVocabulary(st) ==
    /\ ~PluginMissing(st)
    /\ PluginSupportedActions(st.plugin_name).throws = "none"
    /\ SeqContains(PluginSupportedActions(st.plugin_name).actions, st.param.action)

\* the step results recorded for the step
ResultsOf(st) == {r \in 1..Len(StepResults) : StepResults[r].step_id = st.id}

\* no earlier step failed with stop_on_failure set
NoStopBefore(k) ==
    \A j \in 1..(k - 1) :
        j <= Len(StepResults) => ~(FailedAt(j) /\ testCase.steps[j].stop_on_failure)

\* C32: at every point of a case run, executeStep has been invoked at most
\* once for each declared step (no retry), and exactly once exactly for the
\* steps that were reached, whose plugin was found and whose action is in
\* the plugin's vocabulary; every reached step has exactly one step result
\* in the list, whatever its outcome, and a step that was not reached has
\* none.  When the run has returned, the reached steps are those before
\* which no step failed with stop_on_failure.
C32_ExecuteStepOncePerReachedStep ==
    \A k \in 1..Len(testCase.steps) :
        LET st == testCase.steps[k]
            n  == Cardinality(PluginCallsFor(st, {"executeStep"}))
        IN  /\ n <= 1
            /\ n = 1 <=> (ReachedStep(k) /\ InVocabulary(st))
            /\ Cardinality(ResultsOf(st)) = IF ReachedStep(k) THEN 1 ELSE 0
            /\ (Returned /\ RanSteps) => (ReachedStep(k) <=> NoStopBefore(k))

\* a returned run of two steps: the first was executed once and raised, the
\* second was reached and its plugin is not registered; each has one result
C32_Witness ==
    /\ Returned
    /\ Len(testCase.steps) = 2
    /\ ExecuteRaises(testCase.steps[1])
    /\ PluginMissing(testCase.steps[2])
    /\ ReachedStep(2)
    /\ Cardinality(PluginCallsFor(testCase.steps[1], {"executeStep"})) = 1
    /\ Cardinality(PluginCallsFor(testCase.steps[2], {"executeStep"})) = 0
    /\ Len(StepResults) = 2

---------------------------------------------------------------------------
(* C33 *)

\* the call has ended: it returned its result or an exception left it
ScanEnded == scan.pc = "done"

\* C33: substituteDataReferences and AutomationCore::resolveDataReferences
\* end after finitely many turns of their loops for every text and every
\* store, including a value that is empty, a value that contains its own
\* token and a value that contains "${" or another token.
C33_SubstitutionTerminates == <>ScanEnded

\* a call has ended on the text "${A.x}${A.x}" over the store whose item x
\* holds "a${A.x}", a value that contains its own token, and the value was
\* inserted
C33_Witness ==
    /\ ScanEnded
    /\ scan.thrown = NoException
    /\ inputText = TokAx \o TokAx
    /\ 1 \in DOMAIN dataSets_
    /\ dataSets_[1].items[1].value = Str1("a") \o TokAx
    /\ Len(scan.result) > Len(inputText)

---------------------------------------------------------------------------
(* C34 *)

\* the last two calls were the two substitutions, in either order, on the
\* same text and the same store
BothSubstitutionsOnOneText ==
    /\ {prevResolve.op, lastResolve.op} =
          {"substituteDataReferences", "resolveDataReferences"}
    /\ prevResolve.arg = lastResolve.arg
    /\ prevResolve.sets = lastResolve.sets
    /\ prevResolve.nameMap = lastResolve.nameMap

\* C34: for every text and every store, AutomationCore::resolveDataReferences
\* and TestDataManager::substituteDataReferences give the same outcome: both
\* return, and they return the same string.
C34_SubstitutionsAgree ==
    BothSubstitutionsOnOneText =>
        /\ CameBackWith(prevResolve) <=> CameBackWith(lastResolve)
        /\ (CameBackWith(prevResolve) /\ CameBackWith(lastResolve))
              => prevResolve.ret = lastResolve.ret

---------------------------------------------------------------------------
(* C36 *)

\* the handler of an operation name
HandlerOf(action) ==
    CASE action = "Win32_Click"          -> "SimulateButtonClick"
      [] action = "Win32_SetText"        -> "SetTextBoxContent"
      [] action = "Win32_GetWindowTitle" -> "GetWindowTitle"
      [] OTHER                           -> ""

\* the last step went to the initialized Win32 plugin and its action passed
\* the vocabulary check of executeTestStep
LastDispatchPassedCheck ==
    /\ lastDispatch.op = "executeTestStep"
    /\ lastDispatch.passed
    /\ m_isInitialized

\* C36: every step whose action is one of the names supportedActions
\* returns is routed by Win32Plugin::executeStep to the handler of that
\* action and is not rejected as "Unsupported operation", whatever its
\* target is.
C36_PassedStepReachesItsHandler ==
    LastDispatchPassedCheck =>
        /\ lastDispatch.result.message # "Unsupported operation"
        /\ lastDispatch.handler = HandlerOf(lastDispatch.param.action)

---------------------------------------------------------------------------
(* C35 *)

\* the initialized flag implies that the three components exist
InitializedHasComponents ==
    m_initialized =>
        manager = "alive" /\ m_dataManager = "alive" /\ m_testEngine = "alive"

\* the engine exists only while the two managers it points to exist
EngineWithinManagers ==
    m_testEngine = "alive" => manager = "alive" /\ m_dataManager = "alive"

\* initialize() on an initialized core returned true and touched nothing
InitializeAgainIsIdle ==
    (lastCore.op = "initialize" /\ lastCore.before.initialized) =>
        lastCore.ret = "true" /\ CoreSnapshot = lastCore.before

\* uninitialize() on a core that is not initialized touched nothing
UninitializeIdleIsIdle ==
    (lastCore.op = "uninitialize" /\ ~lastCore.before.initialized) =>
        CoreSnapshot = lastCore.before

\* on a core that is not initialized executeTestCase makes no call for a
\* step and returns the default result, and the queries return null, empty
\* or false
UninitializedCoreAnswersEmpty ==
    /\ (lastCore.op = "executeTestCase" /\ ~lastCore.before.initialized) =>
          /\ calls = <<>>
          /\ pc = "done" => result = DefaultExecutionResult
    /\ (lastCore.op = "getDataManager" /\ ~lastCore.before.initialized) =>
          lastCore.ret = "null"
    /\ (lastCore.op = "getPluginInfos" /\ ~lastCore.before.initialized) =>
          lastCore.ret = {}
    /\ (lastCore.op = "getPluginActions" /\ ~lastCore.before.initialized) =>
          lastCore.ret = <<>> /\ lastCore.thrown = "none"
    /\ (lastCore.op = "isPluginAvailable" /\ ~lastCore.before.initialized) =>
          lastCore.ret = FALSE

\* C35: after any sequence of initialize, uninitialize and destruction, as
\* long as the process runs: the initialized flag implies that the plugin
\* manager, the data manager and the test engine exist; the engine never
\* outlives the managers it points to; initialize on an initialized core
\* returns true and changes nothing; uninitialize on a core that is not
\* initialized changes nothing; and a core that is not initialized
\* dispatches no step and answers its queries with null, empty or false.
C35_CoreLifecycleConsistent ==
    manager # "terminated" =>
        /\ InitializedHasComponents
        /\ EngineWithinManagers
        /\ InitializeAgainIsIdle
        /\ UninitializeIdleIsIdle
        /\ UninitializedCoreAnswersEmpty

---------------------------------------------------------------------------
(* C37: the table and the name map under the writing operations *)

\* every dataset of the table is in the map under its name, and under no
\* other name
TableUnderItsName ==
    \A id \in DOMAIN dataSets_ :
        /\ NameMapHas(dataSetNameMap_, dataSets_[id].name)
        /\ \A n \in DOMAIN dataSetNameMap_ :
              dataSetNameMap_[n] = id <=> n = dataSets_[id].name

\* every name of the map leads to a dataset of the table that has this name
MapPointsAtTable ==
    \A n \in DOMAIN dataSetNameMap_ :
        /\ checkDataSetExists(dataSets_, dataSetNameMap_[n])
        /\ dataSets_[dataSetNameMap_[n]].name = n

\* no two datasets of the table have one name
NamesUnique ==
    \A i, j \in DOMAIN dataSets_ : dataSets_[i].name = dataSets_[j].name => i = j

\* the last writing call threw
Rejected == lastStore.op # "none" /\ lastStore.thrown.type # "none"

\* a call that threw left the table, the map and the id counter as it met them
RejectedLeavesStore ==
    Rejected => /\ dataSets_ = lastStore.sets
                /\ dataSetNameMap_ = lastStore.nameMap
                /\ nextDataSetId_ = lastStore.nextSet

\* C37: after any sequence of createDataSet, updateDataSet, deleteDataSet and
\* importDataSetFromFile calls, failing ones included, every dataset of the
\* table is reachable under exactly its current name, every name of the map
\* points to an existing dataset with that name, dataset names are unique,
\* and a call rejected for a duplicate name or an unknown id has left the
\* table and the map unchanged.
C37_StoreStaysConsistent ==
    /\ TableUnderItsName
    /\ MapPointsAtTable
    /\ NamesUnique
    /\ RejectedLeavesStore

\* updateDataSet has just renamed a dataset of a table that holds another one
C37_Witness ==
    /\ lastStore.op = "updateDataSet"
    /\ lastStore.thrown.type = "none"
    /\ lastStore.sets[lastStore.arg.id].name # lastStore.arg.name
    /\ Cardinality(DOMAIN dataSets_) >= 2

---------------------------------------------------------------------------
(* C38: tasks, workers and the destructor of the ThreadPool *)

\* the task of caller c went into the queue, which enqueue does only on a
\* pool that is not stopped
Enqueued(c) == callers[c].pc \in {"notify", "returned", "hung", "crashed"}

\* no task was run twice, and none that was not enqueued
NoTaskRunTwice == \A c \in Callers : Len(ran[c]) <= (IF Enqueued(c) THEN 1 ELSE 0)

\* a task is in the queue, in the hands of a worker, or was run
NoTaskLost ==
    \A c \in Callers :
        Enqueued(c) =>
            Cardinality({i \in DOMAIN tasks : tasks[i] = c})
            + Cardinality({w \in Workers : workers[w].pc = "run" /\ workers[w].task = c})
            + Len(ran[c]) = 1

\* the destructor has returned only after every enqueued task was run once
\* and every worker has left its loop
ReturnedAfterAll ==
    dtor.pc = "returned" =>
        /\ \A c \in Callers : Enqueued(c) => Len(ran[c]) = 1
        /\ \A w \in Workers : workers[w].pc = "exited"

\* an enqueue fails exactly when it meets a stopped pool, and has then put
\* nothing into the queue
StoppedEnqueueFails ==
    \A c \in Callers :
        /\ callers[c].pc # "idle" => (callers[c].stopped <=> callers[c].pc = "threw")
        /\ callers[c].pc = "threw" =>
              /\ \A i \in DOMAIN tasks : tasks[i] # c
              /\ \A w \in Workers : workers[w].task # c
              /\ ran[c] = <<>>

PoolSafe == NoTaskRunTwice /\ NoTaskLost /\ ReturnedAfterAll /\ StoppedEnqueueFails

\* C38: with any number of worker threads and any interleaving of enqueue
\* calls, every task enqueued before the destructor sets stop is run exactly
\* once by exactly one worker; the destructor returns only after all these
\* tasks have run and all workers have exited, and it does return, no worker
\* staying blocked on the condition variable; an enqueue on a stopped pool
\* fails and adds nothing to the queue.
C38_PoolRunsEveryTaskOnce ==
    /\ []PoolSafe
    /\ (dtor.pc = "notify") ~> (dtor.pc = "returned")

=============================================================================
